---- MODULE Spec2Model ----
(***************************************************************************)
(* The PlayStation presentation loop of src/src/ps1.rs (Ps1App) with the   *)
(* input latch, the audio sink and the future chaining of                  *)
(* FrontBlit::blit, as a state machine.  One winit event is handled at a   *)
(* time (single-threaded event loop); the handler of RedrawRequested is    *)
(* followed call by call through the program counter pc, and iter records  *)
(* the calls the current iteration has made, in order.                     *)
(*                                                                         *)
(* Other parts of the program are followed on their own, each from its    *)
(* own initial state while the presentation loop rests:                    *)
(*   LatchSpec  - InputLatch under any sequence of set and clear_source,   *)
(*                latch_op recording what each call told the core;         *)
(*   KernelSpec - the 24-bit conversion kernel of front_blit.rs, one       *)
(*                invocation of the dispatch at a time, over the real      *)
(*                VRAM geometry;                                           *)
(*   BlitSpec   - the command buffer FrontBlit::blit records and the       *)
(*                queue executing it, for the first pixel of VRAM;         *)
(*   ControllerSpec - ControllerManager (src/src/controller.rs) under any  *)
(*                sequence of controller events;                           *)
(*   KeyboardSpec - handle_keyboard_input with the keys physically held;   *)
(*   AudioSpec  - AudioPlayer::push_samples and the device's callback;     *)
(*   TimerSpec  - FrameTimer::enforce and tick against the clock, under    *)
(*                weak fairness of the clock and of the waiting thread;    *)
(*   VertexSpec - the vertex shader of front_blit.rs, one vertex at a time.*)
(* Spec leaves latch_op, the kernel, the bridge and these parts at their   *)
(* initial value.                                                          *)
(***************************************************************************)
EXTENDS Integers, Sequences, FiniteSets, TLC

(* ------------------------------ bounds -------------------------------- *)
\* RedrawRequested events delivered in one session
MaxFrames == 2
\* images of the swapchain (caps.min_image_count is the platform's choice)
NumImages == 2
\* how many entries of DIGITAL_KEYS the latch is followed for
NumKeys == 1
\* buttons of the latch when it is followed on its own
NumLatchKeys == 3
\* contents of the kernel's input buffer that are tried
NumPatterns == 1
\* byte values a VRAM byte is drawn from when one pixel is followed
NumByteValues == 2
\* instance ids of the controllers that can be connected at once
NumControllers == 2
\* microseconds since the last tick beyond which the clock is not followed
MaxElapsedMicros == 18000

(* --------------------------- program constants ------------------------ *)
INPUT_SOURCE_COUNT == 2
MAX_BUFFER_BYTES == 352800
BYTES_PER_SAMPLE == 4

Keyboard == 0
Controller == 1
VRAM_WIDTH_WORDS == 1024
VRAM_HEIGHT == 512
VRAM_BYTES_PER_ROW == VRAM_WIDTH_WORDS * 2
VRAM_WIDTH_24BIT == VRAM_BYTES_PER_ROW \div 3
COMPUTE_LOCAL_SIZE_XY == 8
\* the kernel's own constants (GLSL)
BYTES_PER_ROW == VRAM_WIDTH_WORDS * 2
PIXELS_PER_ROW == BYTES_PER_ROW \div 3
\* layout(local_size_x = 8, local_size_y = 8, local_size_z = 1)
LocalSize == << 8, 8, 1 >>

DIGITAL_KEYS ==
    << "Select", "L3", "R3", "Start", "Up", "Right", "Down", "Left",
       "L2", "R2", "L1", "R1", "Triangle", "Circle", "X", "Square" >>

\* the buttons the model follows: the first NumKeys entries of DIGITAL_KEYS
Keys == { DIGITAL_KEYS[i] : i \in 1..NumKeys }
LatchKeys == { DIGITAL_KEYS[i] : i \in 1..NumLatchKeys }

\* key codes the window delivers (a sample of winit's KeyCode)
KeyCodes == { "Escape", "KeyV", "Space", "KeyF" }

\* lengths (in f32 samples) of the buffer take_audio_buffer can return
SampleCounts == { 0, 44100 }

CpuStates == { "Normal", "Anomalous" }

VARIABLES
    pc,                 \* position of the event loop / of the redraw handler
    render_context,     \* Ps1App.render_context.is_some()
    swapchain,          \* identity of render_context.swapchain (0: none yet)
    frame_future,       \* Ps1App.frame_future: <<>> is None, <<f>> is Some(f)
    recreate_swapchain, \* Ps1App.recreate_swapchain
    shutdown_error,     \* Ps1App.shutdown_error ("None" or the error)
    exiting,            \* event_loop.exit() has been called
    run_result,         \* what run() returned ("running" until it returns)
    full_vram_display,  \* Ps1App.full_vram_display
    input_latch,        \* Ps1App.input_latch: [sources, combined]
    psx_keys,           \* the core's view of each button
    core_frames,        \* video frames the core has been clocked for
    audio_queue,        \* bytes queued in AudioPlayer.queue
    frames,             \* RedrawRequested events handled so far
    iter,               \* calls made so far by the current iteration
    prev_acquire,       \* how the previous iteration's acquire ended
    entry,              \* render_frame: flag and swapchain it was entered with
    cpu_state,          \* render_cycle: result of clock_full_video_frame
    current_future,     \* render_frame: the future taken out of the slot
    acquired,           \* render_frame: result of acquire_next_image
    blit_future,        \* render_frame: future returned by blit_to_front
    submitted,          \* render_frame: result of present + flush
    render_result,      \* result of render_cycle ("None", "Ok" or the error)
    latch_op,           \* the last operation on the input latch, with the
                        \* state it found and the calls it made to the core
    cs_input,           \* conversion kernel: which content InImageData holds
    cs_work_group,      \* conversion kernel: the work group that is running
    cs_invocation,      \* conversion kernel: the invocation that has run
    cs_reads,           \* conversion kernel: byte offsets it read, in order
    cs_writes,          \* conversion kernel: the words of OutImageData it wrote
    texture_image,      \* the core's VRAM image (its first two texels)
    texture_24bit_in_buffer,  \* FrontBlit.texture_24bit_in_buffer (first word)
    texture_24bit_out_buffer, \* FrontBlit.texture_24bit_out_buffer (first word)
    texture_24bit_image,      \* FrontBlit.texture_24bit_image (first texel)
    blit_call,          \* the last call of FrontBlit::blit: is_24bit_color_depth
                        \* and, for a 16-bit call, the staging state it found
    command_buffer,     \* the commands the last blit recorded, in order
    gpu_pos,            \* the command the queue executes next (0: none left)
    sampled,            \* what the last executed draw sampled
    controllers,        \* ControllerManager.controllers, by instance id
    pressed_counts,     \* ControllerManager.pressed_counts (0: no entry)
    keys_down,          \* the keyboard keys that are physically held
    audio_op,           \* the last call of AudioPlayer::push_samples
    last_frame_elapsed, \* FrameTimer.last_frame.elapsed(), in microseconds
    enforce_pc,         \* position of FrameTimer::enforce
    enforce_call,       \* the running call of enforce: its argument, the
                        \* sleep it is in and what it has done so far
    vs_push,            \* vertex shader: the push constants of the draw
    vs_out              \* vertex shader: tex_coord of the vertices run so far

vars == << pc, render_context, swapchain, frame_future, recreate_swapchain,
           shutdown_error, exiting, run_result, full_vram_display,
           input_latch, psx_keys, core_frames, audio_queue, frames, iter,
           prev_acquire, entry, cpu_state, current_future, acquired, blit_future, submitted,
           render_result, latch_op, cs_input, cs_work_group, cs_invocation, cs_reads, cs_writes,
           texture_image, texture_24bit_in_buffer, texture_24bit_out_buffer,
           texture_24bit_image, blit_call, command_buffer, gpu_pos, sampled,
           controllers, pressed_counts, keys_down, audio_op, last_frame_elapsed,
           enforce_pc, enforce_call, vs_push, vs_out >>

\* the conversion kernel's invocation
kernel_vars == << cs_input, cs_work_group, cs_invocation, cs_reads, cs_writes >>

\* the images and buffers of the front blit and its command buffer
bridge_vars == << texture_image, texture_24bit_in_buffer, texture_24bit_out_buffer,
                 texture_24bit_image, blit_call, command_buffer, gpu_pos, sampled >>

\* the controller manager's devices and counts
controller_vars == << controllers, pressed_counts >>

\* the frame timer and the call of enforce
timer_vars == << last_frame_elapsed, enforce_pc, enforce_call >>

\* the vertex shader's invocations
vertex_vars == << vs_push, vs_out >>

\* the parts followed on their own: controllers, held keys, the audio
\* player's last call, the frame timer and the vertex shader
aside_vars == << controller_vars, keys_down, audio_op, timer_vars, vertex_vars >>

\* what the presentation loop is not followed into: the latch's last
\* operation, the kernel, the blit's commands and the parts above
off_loop == << latch_op, kernel_vars, bridge_vars, aside_vars >>

\* the fields of Ps1App outside the swapchain flag
app_rest == << render_context, swapchain, frame_future, shutdown_error,
               exiting, run_result, full_vram_display, input_latch,
               psx_keys, core_frames, audio_queue >>

\* the locals of the redraw handler
locals == << frames, iter, prev_acquire, entry, cpu_state, current_future, acquired, blit_future,
             submitted, render_result >>

(* ------------------------------ futures ------------------------------- *)
\* A GpuFuture is the chain of GPU operations it orders, oldest first.

\* sync::now(device): nothing to wait for
Now == << >>

GpuOp(op, frame, image) == [ op |-> op, frame |-> frame, image |-> image ]

\* the future acquire_next_image returns for image i in iteration n
AcquireFuture(n, i) == << GpuOp("acquire", n, i) >>

\* GpuFuture::join: both chains are ordered before whatever follows
Join(first, second) == first \o second

\* GpuFuture::then_execute(queue, command_buffer)
ThenExecute(in_future, n, i) == Append(in_future, GpuOp("execute", n, i))

\* GpuFuture::then_swapchain_present(queue, present_info)
ThenSwapchainPresent(future, n, i) == Append(future, GpuOp("present", n, i))

\* FrontBlit::blit: records one command buffer drawing into dest image i and
\* returns in_future.then_execute(queue, command_buffer)
FrontBlit_blit(i, n, in_future) == ThenExecute(in_future, n, i)

\* Psx::blit_to_front hands the destination image and the upstream future
\* to FrontBlit::blit and returns its future
blit_to_front(i, n, full_vram, in_future) == FrontBlit_blit(i, n, in_future)

(* ---------------------------- input latch ----------------------------- *)
InputLatch_new(keys) ==
    [ sources  |-> [ s \in 0..(INPUT_SOURCE_COUNT - 1) |-> [ k \in keys |-> FALSE ] ],
      combined |-> [ k \in keys |-> FALSE ] ]

\* the latch and the core's buttons as InputLatch::set is handed them; calls
\* collects the calls of change_controller_key_state, in order
LatchState == [ latch |-> input_latch, core |-> psx_keys, calls |-> << >> ]

\* InputLatch::set with the written value taken as the combined state
InputLatch_set_last_writer_wins(st, source, key, pressed) ==
    LET srcs == [ st.latch.sources EXCEPT ![source][key] = pressed ]
        next == pressed
    IN  IF next # st.latch.combined[key]
        THEN [ latch |-> [ sources  |-> srcs,
                           combined |-> [ st.latch.combined EXCEPT ![key] = next ] ],
               core  |-> [ st.core EXCEPT ![key] = next ],
               calls |-> Append(st.calls, << key, next >>) ]
        ELSE [ latch |-> [ sources |-> srcs, combined |-> st.latch.combined ],
               core  |-> st.core,
               calls |-> st.calls ]

\* InputLatch::set telling the core on every call
InputLatch_set_tells_every_time(st, source, key, pressed) ==
    LET srcs == [ st.latch.sources EXCEPT ![source][key] = pressed ]
        next == \E s \in DOMAIN srcs : srcs[s][key]
    IN  [ latch |-> [ sources  |-> srcs,
                      combined |-> [ st.latch.combined EXCEPT ![key] = next ] ],
          core  |-> [ st.core EXCEPT ![key] = next ],
          calls |-> Append(st.calls, << key, next >>) ]

\* InputLatch::set on the pair (latch, core keys); the core is told only
\* when the combined state of the button changes
InputLatch_set(st, source, key, pressed) ==
    LET srcs == [ st.latch.sources EXCEPT ![source][key] = pressed ]
        next == \E s \in DOMAIN srcs : srcs[s][key]
    IN  IF next # st.latch.combined[key]
        THEN [ latch |-> [ sources  |-> srcs,
                           combined |-> [ st.latch.combined EXCEPT ![key] = next ] ],
               core  |-> [ st.core EXCEPT ![key] = next ],
               calls |-> Append(st.calls, << key, next >>) ]
        ELSE [ latch |-> [ sources |-> srcs, combined |-> st.latch.combined ],
               core  |-> st.core,
               calls |-> st.calls ]

RECURSIVE SetAll(_, _, _, _)
\* InputLatch::set for each entry i.. of DIGITAL_KEYS, value(key) the state
SetAll(st, source, value, i) ==
    IF i > Len(DIGITAL_KEYS) THEN st
    ELSE IF DIGITAL_KEYS[i] \in DOMAIN st.core
         THEN SetAll(InputLatch_set(st, source, DIGITAL_KEYS[i], value[DIGITAL_KEYS[i]]),
                     source, value, i + 1)
         ELSE SetAll(st, source, value, i + 1)

\* InputLatch::clear_source wiping the source without going through set
InputLatch_clear_source_silent(st, source) ==
    [ st EXCEPT !.latch.sources[source] = [ k \in DOMAIN st.core |-> FALSE ] ]

\* InputLatch::clear_source clearing the other sources along with the one named
InputLatch_clear_source_every_source(st, source) ==
    SetAll(SetAll(st, Keyboard, [ k \in DOMAIN st.core |-> FALSE ], 1),
           Controller, [ k \in DOMAIN st.core |-> FALSE ], 1)

\* InputLatch::clear_source
InputLatch_clear_source(st, source) ==
    SetAll(st, source, [ k \in DOMAIN st.core |-> FALSE ], 1)

map_keyboard_key(code) ==
    CASE code = "ArrowUp" -> "Up"
      [] code = "ArrowDown" -> "Down"
      [] code = "ArrowLeft" -> "Left"
      [] code = "ArrowRight" -> "Right"
      [] code = "KeyZ" -> "X"
      [] code = "KeyX" -> "Circle"
      [] code = "KeyA" -> "Square"
      [] code = "KeyS" -> "Triangle"
      [] code = "KeyQ" -> "L1"
      [] code = "KeyW" -> "R1"
      [] code = "Digit1" -> "L2"
      [] code = "Digit2" -> "R2"
      [] code \in { "Enter", "NumpadEnter" } -> "Start"
      [] code \in { "Space", "Backspace", "ShiftLeft", "ShiftRight" } -> "Select"
      [] OTHER -> "None"

(* ------------------------------- audio -------------------------------- *)
\* AudioPlayer::push_samples: queue, then drop everything once more than
\* about one second is buffered
push_samples(queue, n) ==
    LET queued == queue + n * BYTES_PER_SAMPLE
    IN  IF queued > MAX_BUFFER_BYTES THEN 0 ELSE queued

(* ------------------------------- Init --------------------------------- *)
\* Ps1App::new, before the event loop runs
Ps1App_new(keys) ==
    /\ pc = "idle"
    /\ render_context = FALSE
    /\ swapchain = 0
    /\ frame_future = << >>
    /\ recreate_swapchain = FALSE
    /\ shutdown_error = "None"
    /\ exiting = FALSE
    /\ run_result = "running"
    /\ full_vram_display = FALSE
    /\ input_latch = InputLatch_new(keys)
    /\ psx_keys = [ k \in keys |-> FALSE ]
    /\ core_frames = 0
    /\ audio_queue = 0
    /\ frames = 0
    /\ iter = << >>
    /\ prev_acquire = "None"
    /\ entry = << >>
    /\ cpu_state = "None"
    /\ current_future = << >>
    /\ acquired = << >>
    /\ blit_future = << >>
    /\ submitted = "None"
    /\ render_result = "None"

\* the bytes the device takes from the queue in one callback: 1024 sample
\* frames of 2 channels
DeviceCallbackBytes == 1024 * 2 * BYTES_PER_SAMPLE

\* what is left of a queue the device took some bytes from
Drained(queue, bytes) == IF queue > bytes THEN queue - bytes ELSE 0

\* push_samples clearing only down to the limit, the newest bytes kept
push_samples_with_keeps_newest(queue, n, ok, drained) ==
    LET queued == IF ok THEN queue + n * BYTES_PER_SAMPLE ELSE queue
        size == Drained(queued, drained)
    IN  IF size > MAX_BUFFER_BYTES THEN MAX_BUFFER_BYTES ELSE size

\* AudioPlayer::push_samples with its two outcomes: queue_audio enqueues
\* (ok) or fails and is logged, the queue as it was; the device may take
\* bytes before queue.size() is read; more than MAX_BUFFER_BYTES then
\* clears the queue
push_samples_with(queue, n, ok, drained) ==
    LET queued == IF ok THEN queue + n * BYTES_PER_SAMPLE ELSE queue
        size == Drained(queued, drained)
    IN  IF size > MAX_BUFFER_BYTES THEN 0 ELSE size

(* ------------------------ conversion kernel --------------------------- *)
\* a 32-bit word (GLSL uint, Rust u32) is kept as its two 16-bit halves
Word(b0, b1, b2, b3) == [ lo |-> b0 + 256 * b1, hi |-> b2 + 256 * b3 ]

\* word >> shift, for a shift below 32
ShiftRight(word, shift) ==
    IF shift >= 16
    THEN [ hi |-> 0, lo |-> word.hi \div (2 ^ (shift - 16)) ]
    ELSE [ hi |-> word.hi \div (2 ^ shift),
           lo |-> ((word.lo \div (2 ^ shift))
                   + (word.hi % (2 ^ shift)) * (2 ^ (16 - shift))) % 65536 ]

\* the byte at address k of a word in memory (lowest byte first)
ByteOf(word, k) ==
    CASE k = 0 -> word.lo % 256
      [] k = 1 -> word.lo \div 256
      [] k = 2 -> word.hi % 256
      [] k = 3 -> word.hi \div 256

\* number of words of texture_24bit_in_buffer and of texture_24bit_out_buffer
InBufferLen == (VRAM_WIDTH_WORDS * VRAM_HEIGHT) \div 2
OutBufferLen == VRAM_WIDTH_24BIT * VRAM_HEIGHT

\* byte j of the packed input under pattern p: a running counter whose
\* period divides neither the word nor the scanline
InByte(p, j) == (j * (2 * p + 1) + p) % 251

\* the input buffer as the device sees it: four bytes per word, lowest first
InData(p) ==
    [ w \in 0..(InBufferLen - 1) |->
        Word(InByte(p, 4 * w), InByte(p, 4 * w + 1),
             InByte(p, 4 * w + 2), InByte(p, 4 * w + 3)) ]

\* read_byte taking the bytes of a word highest first
read_byte_big_endian(data, byte_index) ==
    LET word == data[byte_index \div 4]
        shift == (3 - (byte_index % 4)) * 8
    IN  ShiftRight(word, shift).lo % 256

\* uint read_byte(uint byte_index)
read_byte(data, byte_index) ==
    LET word == data[byte_index \div 4]
        shift == (byte_index % 4) * 8
    IN  ShiftRight(word, shift).lo % 256

\* uvec3 read_rgb(uint byte_index)
read_rgb(data, byte_index) ==
    [ x |-> read_byte(data, byte_index + 0),
      y |-> read_byte(data, byte_index + 1),
      z |-> read_byte(data, byte_index + 2) ]

\* the byte offsets read_rgb hands to read_byte, in order
read_rgb_offsets(byte_index) ==
    << byte_index + 0, byte_index + 1, byte_index + 2 >>

\* uint pack_color(uvec3 rgb) = 0xFF000000 | z << 16 | y << 8 | x; the
\* components come from read_byte and are bytes, so each OR is a sum
pack_color(rgb) == [ hi |-> 65280 + rgb.z, lo |-> rgb.y * 256 + rgb.x ]

\* main() with neither the range check nor the straddle guard
kernel_main_unguarded(data, x, y) ==
    LET base_byte == y * BYTES_PER_ROW + x * 3
    IN  [ reads  |-> read_rgb_offsets(base_byte),
          writes |-> << << y * PIXELS_PER_ROW + x,
                          pack_color(read_rgb(data, base_byte)) >> >> ]

\* main() clamping an out-of-range coordinate to the last pixel instead of
\* returning
kernel_main_clamps(data, x, y) ==
    LET cx == IF x >= PIXELS_PER_ROW THEN PIXELS_PER_ROW - 1 ELSE x
        cy == IF y >= VRAM_HEIGHT THEN VRAM_HEIGHT - 1 ELSE y
        base_byte == cy * BYTES_PER_ROW + cx * 3
    IN  [ reads  |-> read_rgb_offsets(base_byte),
          writes |-> << << cy * PIXELS_PER_ROW + cx,
                          pack_color(read_rgb(data, base_byte)) >> >> ]

\* main() writing its rows one word closer together than they are long
kernel_main_short_stride(data, x, y) ==
    IF x >= PIXELS_PER_ROW \/ y >= VRAM_HEIGHT
    THEN [ reads |-> << >>, writes |-> << >> ]
    ELSE LET base_byte == y * BYTES_PER_ROW + x * 3
             row_end == (y + 1) * BYTES_PER_ROW
         IN  IF base_byte + 2 >= row_end
             THEN [ reads |-> << >>, writes |-> << >> ]
             ELSE [ reads  |-> read_rgb_offsets(base_byte),
                    writes |-> << << y * (PIXELS_PER_ROW - 1) + x,
                                    pack_color(read_rgb(data, base_byte)) >> >> ]

\* void main() of the kernel for gl_GlobalInvocationID = (x, y): the byte
\* offsets it reads and the words of the output it writes (every uint it
\* computes is below 2^21, so none wraps)
kernel_main(data, x, y) ==
    IF x >= PIXELS_PER_ROW \/ y >= VRAM_HEIGHT
    THEN [ reads |-> << >>, writes |-> << >> ]
    ELSE LET base_byte == y * BYTES_PER_ROW + x * 3
             row_end == (y + 1) * BYTES_PER_ROW
         IN  IF base_byte + 2 >= row_end
             THEN [ reads |-> << >>, writes |-> << >> ]
             ELSE [ reads  |-> read_rgb_offsets(base_byte),
                    writes |-> << << y * PIXELS_PER_ROW + x,
                                    pack_color(read_rgb(data, base_byte)) >> >> ]

\* a descriptor set with the input buffer at both bindings
texture_24bit_desc_set_one_buffer ==
    [ binding \in { 0, 1 } |-> "texture_24bit_in_buffer" ]

\* FrontBlit::new: the kernel's descriptor set, buffer by binding; the
\* kernel reads binding 0 (InData) and writes binding 1 (OutData)
texture_24bit_desc_set ==
    [ binding \in { 0, 1 } |->
        IF binding = 0 THEN "texture_24bit_in_buffer" ELSE "texture_24bit_out_buffer" ]

\* the dispatch rounding the number of work groups down
DispatchGroups_rounded_down ==
    << VRAM_WIDTH_24BIT \div COMPUTE_LOCAL_SIZE_XY,
       VRAM_HEIGHT \div COMPUTE_LOCAL_SIZE_XY,
       1 >>

\* dispatch([..]) of FrontBlit::blit: the number of work groups
DispatchGroups ==
    << (VRAM_WIDTH_24BIT + COMPUTE_LOCAL_SIZE_XY - 1) \div COMPUTE_LOCAL_SIZE_XY,
       (VRAM_HEIGHT + COMPUTE_LOCAL_SIZE_XY - 1) \div COMPUTE_LOCAL_SIZE_XY,
       1 >>

\* no invocation of the kernel has run; the input buffer holds pattern p
KernelIdle(p) ==
    /\ cs_input = p
    /\ cs_work_group = << >>
    /\ cs_invocation = << >>
    /\ cs_reads = << >>
    /\ cs_writes = << >>

(* ---------------------- front blit, one pixel followed ---------------- *)
ByteSamples == << 18, 255, 0, 128 >>
ByteValues == { ByteSamples[i] : i \in 1..NumByteValues }

\* the first two 16-bit texels of the VRAM image whose first three bytes are
\* r, g, b; the fourth byte belongs to the next pixel
VramSample(r, g, b) == << r + 256 * g, b + 256 * 119 >>
VramContents == { VramSample(r, g, b) : r \in ByteValues, g \in ByteValues, b \in ByteValues }

\* FrontBlit::new: the staging buffers and the staging image are allocated,
\* not written (<< >>: no defined content)
FrontBlit_new(vram) ==
    /\ texture_image = vram
    /\ texture_24bit_in_buffer = << >>
    /\ texture_24bit_out_buffer = << >>
    /\ texture_24bit_image = << >>
    /\ blit_call = << >>
    /\ command_buffer = << >>
    /\ gpu_pos = 0
    /\ sampled = << >>

\* one recorded command: what it is, what it reads, what it writes
Cmd(cmd, src, dst) == [ cmd |-> cmd, src |-> src, dst |-> dst, args |-> << >> ]

\* a recorded command with the arguments the builder was given
CmdWith(cmd, src, dst, args) == [ cmd |-> cmd, src |-> src, dst |-> dst, args |-> args ]

\* the conversion commands recorded for a 24-bit frame
ConvertCommands ==
    << Cmd("copy_image_to_buffer", "texture_image", "texture_24bit_in_buffer"),
       Cmd("bind_pipeline_compute", "c_pipeline", ""),
       Cmd("bind_descriptor_sets", "texture_24bit_desc_set", ""),
       Cmd("dispatch", "texture_24bit_in_buffer", "texture_24bit_out_buffer"),
       Cmd("copy_buffer_to_image", "texture_24bit_out_buffer", "texture_24bit_image") >>

\* the render pass with the draw recorded after end_render_pass
RenderCommands_draw_after_pass(source_image) ==
    << Cmd("begin_render_pass", "", "dest_image"),
       CmdWith("set_viewport", "dest_image.extent", "", << 0, 0 >>),
       Cmd("bind_pipeline_graphics", "g_pipeline", ""),
       CmdWith("bind_descriptor_sets", source_image, "", << "sampler", "image_view" >>),
       CmdWith("bind_descriptor_sets", source_image, "", << "sampler", "image_view" >>),
       CmdWith("push_constants", "", "", << "topleft", "size", "extent" >>),
       Cmd("bind_vertex_buffers", "vertex_buffer", ""),
       Cmd("end_render_pass", "", "dest_image"),
       CmdWith("draw", source_image, "dest_image", << 4, 1, 0, 0 >>) >>

\* the render pass recorded for every frame; the descriptor set holds the
\* sampler and the view of source_image, the viewport is the extent of
\* dest_image at offset (0, 0), the draw is draw(4, 1, 0, 0)
RenderCommands(source_image) ==
    << Cmd("begin_render_pass", "", "dest_image"),
       CmdWith("set_viewport", "dest_image.extent", "", << 0, 0 >>),
       Cmd("bind_pipeline_graphics", "g_pipeline", ""),
       CmdWith("bind_descriptor_sets", source_image, "", << "sampler", "image_view" >>),
       CmdWith("bind_descriptor_sets", source_image, "", << "sampler", "image_view" >>),
       CmdWith("push_constants", "", "", << "topleft", "size", "extent" >>),
       Cmd("bind_vertex_buffers", "vertex_buffer", ""),
       CmdWith("draw", source_image, "dest_image", << 4, 1, 0, 0 >>),
       Cmd("end_render_pass", "", "dest_image") >>

\* blit recording the conversion whatever the colour depth
blit_commands_always_converts(is_24bit_color_depth) ==
    ConvertCommands \o RenderCommands("texture_24bit_image")

\* blit recording the render pass ahead of the conversion
blit_commands_draws_first(is_24bit_color_depth) ==
    IF is_24bit_color_depth
    THEN RenderCommands("texture_24bit_image") \o ConvertCommands
    ELSE RenderCommands("texture_image")

\* FrontBlit::blit: the commands it records into its command buffer
blit_commands(is_24bit_color_depth) ==
    IF is_24bit_color_depth
    THEN ConvertCommands \o RenderCommands("texture_24bit_image")
    ELSE RenderCommands("texture_image")

\* copy_image_to_buffer of two 16-bit texels: their bytes, lowest first
copy_image_to_buffer(texels) ==
    Word(texels[1] % 256, texels[1] \div 256, texels[2] % 256, texels[2] \div 256)

\* the dispatch, for the first output word: invocation (0, 0) of the kernel
\* on the first input word
dispatch(in_word) ==
    kernel_main([ w \in { 0 } |-> in_word ], 0, 0).writes[1][2]

\* copy_buffer_to_image into a B8G8R8A8_UNORM image: the texel's components
\* in memory order
copy_buffer_to_image(word) ==
    [ b |-> ByteOf(word, 0), g |-> ByteOf(word, 1),
      r |-> ByteOf(word, 2), a |-> ByteOf(word, 3) ]

\* an image view with the default (identity) component mapping
ImageView_identity(texel) ==
    [ r |-> texel.r, g |-> texel.g, b |-> texel.b, a |-> texel.a ]

\* the ImageView of blit: component_mapping { r: Blue, b: Red, .. }
ImageView(texel) ==
    [ r |-> texel.b, g |-> texel.g, b |-> texel.r, a |-> texel.a ]

(* ============ the parts of the program followed on their own ========== *)
\* controller.rs: the instance ids of the controllers that can be connected
ControllerIds == 0..(NumControllers - 1)

\* controller.rs: the VirtualButton values followed
VirtualButtons == { "Start", "Up", "Down", "Left", "Right" }

\* ControllerManager::new: no controller, no count
ControllerManager_new ==
    /\ controllers = [ id \in ControllerIds |-> << >> ]
    /\ pressed_counts = [ b \in VirtualButtons |-> 0 ]

\* FrameTimer::new: last_frame is now, no call of enforce is running
FrameTimer_new ==
    /\ last_frame_elapsed = 0
    /\ enforce_pc = "idle"
    /\ enforce_call = << >>

\* FrontBlit::new: the quad's vertex buffer
vertex_buffer == << << -1, -1 >>, << -1, 1 >>, << 1, -1 >>, << 1, 1 >> >>

\* a draw with the given push constants (none: no draw yet) of which no
\* vertex has been run
VertexIdle(push) ==
    /\ vs_push = push
    /\ vs_out = [ i \in 1..Len(vertex_buffer) |-> << >> ]

\* no key is held, nothing has been pushed to the audio queue, the timer is new
PartsInit ==
    /\ ControllerManager_new
    /\ keys_down = { }
    /\ audio_op = << >>
    /\ FrameTimer_new

\* the parts as they start, and no draw has run the vertex shader
AsideInit ==
    /\ PartsInit
    /\ VertexIdle(<< >>)

Init ==
    /\ Ps1App_new(Keys)
    /\ latch_op = << >>
    /\ KernelIdle(0)
    /\ FrontBlit_new(VramSample(0, 0, 0))
    /\ AsideInit

\* the event loop delivers an event: it is running and no handler is active
Dispatching == pc = "idle" /\ ~exiting

\* window_event drops events for a window that is not the app's
ForWindow == Dispatching /\ render_context

Log(call) == iter' = Append(iter, call)

(* ------------------------ window events (idle) ------------------------ *)
\* ApplicationHandler::resumed -> init_window: creates window, surface and
\* swapchain once; any failing step exits the loop with the error
Resumed ==
    /\ Dispatching
    /\ \/ /\ render_context
          /\ UNCHANGED vars
       \/ /\ ~render_context
          /\ render_context' = TRUE
          /\ swapchain' = 1
          /\ frame_future' = << Now >>
          /\ recreate_swapchain' = FALSE
          /\ UNCHANGED << pc, shutdown_error, exiting, run_result,
                          full_vram_display, input_latch, psx_keys,
                          core_frames, audio_queue, locals >>
       \/ /\ ~render_context
          /\ shutdown_error' = "init_window"
          /\ exiting' = TRUE
          /\ UNCHANGED << pc, render_context, swapchain, frame_future,
                          recreate_swapchain, run_result, full_vram_display,
                          input_latch, psx_keys, core_frames, audio_queue,
                          locals >>
    /\ UNCHANGED off_loop

\* WindowEvent::CloseRequested
CloseRequested ==
    /\ ForWindow
    /\ exiting' = TRUE
    /\ UNCHANGED << pc, render_context, swapchain, frame_future,
                    recreate_swapchain, shutdown_error, run_result,
                    full_vram_display, input_latch, psx_keys, core_frames,
                    audio_queue, locals >>
    /\ UNCHANGED off_loop

\* WindowResized with the recreation done in the event handler itself
WindowResized_recreates_now ==
    /\ ForWindow
    /\ swapchain' = swapchain + 1
    /\ recreate_swapchain' = FALSE
    /\ UNCHANGED << pc, render_context, frame_future, shutdown_error, exiting,
                    run_result, full_vram_display, input_latch, psx_keys,
                    core_frames, audio_queue, locals >>
    /\ UNCHANGED off_loop

\* WindowEvent::Resized | WindowEvent::ScaleFactorChanged
WindowResized ==
    /\ ForWindow
    /\ recreate_swapchain' = TRUE
    /\ UNCHANGED << pc, app_rest, locals >>
    /\ UNCHANGED off_loop

\* WindowEvent::KeyboardInput -> handle_keyboard_input
KeyboardInput ==
    /\ ForWindow
    /\ \E code \in KeyCodes, pressed \in BOOLEAN, repeat \in BOOLEAN :
         IF repeat
         THEN UNCHANGED vars
         ELSE IF code = "Escape" /\ pressed
         THEN /\ exiting' = TRUE
              /\ UNCHANGED << pc, render_context, swapchain, frame_future,
                              recreate_swapchain, shutdown_error, run_result,
                              full_vram_display, input_latch, psx_keys,
                              core_frames, audio_queue, locals >>
         ELSE LET mapped == map_keyboard_key(code)
                  st == IF mapped \in Keys
                        THEN InputLatch_set(LatchState, Keyboard, mapped, pressed)
                        ELSE LatchState
              IN  /\ full_vram_display' =
                        IF code = "KeyV" /\ pressed THEN ~full_vram_display
                                                    ELSE full_vram_display
                  /\ input_latch' = st.latch
                  /\ psx_keys' = st.core
                  /\ UNCHANGED << pc, render_context, swapchain, frame_future,
                                  recreate_swapchain, shutdown_error, exiting,
                                  run_result, core_frames, audio_queue, locals >>
    /\ UNCHANGED off_loop

\* WindowEvent::Focused(false)
FocusLost ==
    /\ ForWindow
    /\ LET st == InputLatch_clear_source(LatchState, Keyboard)
       IN  /\ input_latch' = st.latch
           /\ psx_keys' = st.core
    /\ UNCHANGED << pc, render_context, swapchain, frame_future,
                    recreate_swapchain, shutdown_error, exiting, run_result,
                    full_vram_display, core_frames, audio_queue, locals >>
    /\ UNCHANGED off_loop

(* ---------------- WindowEvent::RedrawRequested: render_cycle ---------- *)
\* what the steps of the redraw handler leave alone
session == << render_context, shutdown_error, exiting, run_result,
              full_vram_display >>
inputs == << input_latch, psx_keys >>

\* window_event -> handle_redraw_requested -> render_cycle is entered
RedrawRequested ==
    /\ ForWindow
    /\ frames < MaxFrames
    /\ frames' = frames + 1
    /\ pc' = "enforce"
    /\ UNCHANGED << session, inputs, swapchain, frame_future,
                    recreate_swapchain, core_frames, audio_queue, iter,
                    prev_acquire, entry, cpu_state, current_future, acquired,
                    blit_future, submitted, render_result >>
    /\ UNCHANGED off_loop

\* self.frame_timer.enforce(self.limit_fps)
FrameTimerEnforce ==
    /\ pc = "enforce"
    /\ Log("enforce")
    /\ pc' = "sync_inputs"
    /\ UNCHANGED << session, inputs, swapchain, frame_future,
                    recreate_swapchain, core_frames, audio_queue, frames,
                    prev_acquire, entry, cpu_state, current_future, acquired,
                    blit_future, submitted, render_result >>
    /\ UNCHANGED off_loop

\* self.controller.sync_inputs: the controller source of every button is set
\* to what the controller manager reports
SyncInputs ==
    /\ pc = "sync_inputs"
    /\ \E held \in [ Keys -> BOOLEAN ] :
         LET st == SetAll(LatchState, Controller, held, 1)
         IN  /\ input_latch' = st.latch
             /\ psx_keys' = st.core
    /\ Log("sync_inputs")
    /\ pc' = "clock"
    /\ UNCHANGED << session, swapchain, frame_future, recreate_swapchain,
                    core_frames, audio_queue, frames, prev_acquire, entry,
                    cpu_state, current_future, acquired, blit_future,
                    submitted, render_result >>
    /\ UNCHANGED off_loop

\* ClockFrame with a state other than Normal returned as an error
ClockFrame_aborts_on_anomaly ==
    /\ pc = "clock"
    /\ \E state \in CpuStates :
         /\ cpu_state' = state
         /\ iter' = Append(iter, "clock_full_video_frame")
         /\ IF state # "Normal"
            THEN /\ render_result' = "PlayStation core reported state"
                 /\ pc' = "return"
            ELSE /\ render_result' = render_result
                 /\ pc' = "audio"
    /\ core_frames' = core_frames + 1
    /\ UNCHANGED << session, inputs, swapchain, frame_future,
                    recreate_swapchain, audio_queue, frames, prev_acquire,
                    entry, current_future, acquired, blit_future, submitted >>
    /\ UNCHANGED off_loop

\* let cpu_state = self.psx.clock_full_video_frame(); a state other than
\* Normal is logged with warn!
ClockFrame ==
    /\ pc = "clock"
    /\ \E state \in CpuStates :
         /\ cpu_state' = state
         /\ iter' = IF state # "Normal"
                    THEN iter \o << "clock_full_video_frame", "warn" >>
                    ELSE Append(iter, "clock_full_video_frame")
    /\ core_frames' = core_frames + 1
    /\ pc' = "audio"
    /\ UNCHANGED << session, inputs, swapchain, frame_future,
                    recreate_swapchain, audio_queue, frames, prev_acquire,
                    entry, current_future, acquired, blit_future, submitted,
                    render_result >>
    /\ UNCHANGED off_loop

\* take_audio_buffer, push_samples unless empty, then frame_timer.tick()
DrainAudio ==
    /\ pc = "audio"
    /\ \E n \in SampleCounts :
         IF n # 0
         THEN /\ audio_queue' = push_samples(audio_queue, n)
              /\ iter' = iter \o << "take_audio_buffer", "push_samples", "tick" >>
         ELSE /\ audio_queue' = audio_queue
              /\ iter' = iter \o << "take_audio_buffer", "tick" >>
    /\ pc' = "render_frame"
    /\ UNCHANGED << session, inputs, swapchain, frame_future,
                    recreate_swapchain, core_frames, frames, prev_acquire,
                    entry, cpu_state, current_future, acquired, blit_future,
                    submitted, render_result >>
    /\ UNCHANGED off_loop

(* ------------------------------ render_frame -------------------------- *)
\* RenderFrameBegin without the check of self.recreate_swapchain
RenderFrameBegin_no_recreate ==
    /\ pc = "render_frame"
    /\ current_future' = IF frame_future = << >> THEN << Now >> ELSE frame_future
    /\ frame_future' = << >>
    /\ entry' = << [ recreate |-> recreate_swapchain, swapchain |-> swapchain ] >>
    /\ Log("render_frame")
    /\ pc' = "acquire"
    /\ UNCHANGED << session, inputs, swapchain, recreate_swapchain,
                    core_frames, audio_queue, frames, prev_acquire, cpu_state,
                    acquired, blit_future, submitted, render_result >>
    /\ UNCHANGED off_loop

\* the future is taken out of the slot (or a placeholder made) and
\* cleanup_finished is called on it
RenderFrameBegin ==
    /\ pc = "render_frame"
    /\ current_future' = IF frame_future = << >> THEN << Now >> ELSE frame_future
    /\ frame_future' = << >>
    /\ entry' = << [ recreate |-> recreate_swapchain, swapchain |-> swapchain ] >>
    /\ Log("render_frame")
    /\ pc' = IF recreate_swapchain THEN "recreate" ELSE "acquire"
    /\ UNCHANGED << session, inputs, swapchain, recreate_swapchain,
                    core_frames, audio_queue, frames, prev_acquire, cpu_state,
                    acquired, blit_future, submitted, render_result >>
    /\ UNCHANGED off_loop

\* if self.recreate_swapchain { self.recreate_swapchain = false;
\*     ... render.swapchain.recreate(..)? ... }
RecreateSwapchain ==
    /\ pc = "recreate"
    /\ recreate_swapchain' = FALSE
    /\ Log("recreate")
    /\ \/ /\ swapchain' = swapchain + 1
          /\ pc' = "acquire"
          /\ UNCHANGED render_result
       \/ /\ render_result' = "failed to recreate PlayStation swapchain"
          /\ pc' = "return"
          /\ UNCHANGED swapchain
    /\ UNCHANGED << session, inputs, frame_future, core_frames, audio_queue,
                    frames, prev_acquire, entry, cpu_state, current_future,
                    acquired, blit_future, submitted >>
    /\ UNCHANGED off_loop

\* AcquireNextImage without "if suboptimal { self.recreate_swapchain = true }"
AcquireNextImage_ignores_suboptimal ==
    /\ pc = "acquire"
    /\ Log("acquire_next_image")
    /\ \/ \E i \in 0..(NumImages - 1), suboptimal \in BOOLEAN :
            /\ acquired' = << [ result |-> IF suboptimal THEN "Suboptimal" ELSE "Ok",
                                image |-> i, swapchain |-> swapchain ] >>
            /\ pc' = "blit"
            /\ UNCHANGED << frame_future, render_result, recreate_swapchain >>
       \/ /\ acquired' = << [ result |-> "OutOfDate", image |-> 0,
                              swapchain |-> swapchain ] >>
          /\ recreate_swapchain' = TRUE
          /\ frame_future' = current_future
          /\ render_result' = "Ok"
          /\ pc' = "return"
       \/ /\ acquired' = << [ result |-> "Error", image |-> 0,
                              swapchain |-> swapchain ] >>
          /\ render_result' = "failed to acquire PS1 swapchain image"
          /\ pc' = "return"
          /\ UNCHANGED << frame_future, recreate_swapchain >>
    /\ UNCHANGED << session, inputs, swapchain, core_frames, audio_queue,
                    frames, prev_acquire, entry, cpu_state, current_future,
                    blit_future, submitted >>
    /\ UNCHANGED off_loop

\* AcquireNextImage whose OutOfDate arm returns without
\* "self.frame_future = Some(current_future)"
AcquireNextImage_drops_future ==
    /\ pc = "acquire"
    /\ Log("acquire_next_image")
    /\ \/ \E i \in 0..(NumImages - 1), suboptimal \in BOOLEAN :
            /\ acquired' = << [ result |-> IF suboptimal THEN "Suboptimal" ELSE "Ok",
                                image |-> i, swapchain |-> swapchain ] >>
            /\ recreate_swapchain' = (recreate_swapchain \/ suboptimal)
            /\ pc' = "blit"
            /\ UNCHANGED << frame_future, render_result >>
       \/ /\ acquired' = << [ result |-> "OutOfDate", image |-> 0,
                              swapchain |-> swapchain ] >>
          /\ recreate_swapchain' = TRUE
          /\ render_result' = "Ok"
          /\ pc' = "return"
          /\ UNCHANGED frame_future
       \/ /\ acquired' = << [ result |-> "Error", image |-> 0,
                              swapchain |-> swapchain ] >>
          /\ render_result' = "failed to acquire PS1 swapchain image"
          /\ pc' = "return"
          /\ UNCHANGED << frame_future, recreate_swapchain >>
    /\ UNCHANGED << session, inputs, swapchain, core_frames, audio_queue,
                    frames, prev_acquire, entry, cpu_state, current_future,
                    blit_future, submitted >>
    /\ UNCHANGED off_loop

\* swapchain::acquire_next_image(render.swapchain.clone(), None) and the
\* match on its result; if suboptimal { self.recreate_swapchain = true }
AcquireNextImage ==
    /\ pc = "acquire"
    /\ Log("acquire_next_image")
    /\ \/ \E i \in 0..(NumImages - 1), suboptimal \in BOOLEAN :
            /\ acquired' = << [ result |-> IF suboptimal THEN "Suboptimal" ELSE "Ok",
                                image |-> i, swapchain |-> swapchain ] >>
            /\ recreate_swapchain' = (recreate_swapchain \/ suboptimal)
            /\ pc' = "blit"
            /\ UNCHANGED << frame_future, render_result >>
       \/ /\ acquired' = << [ result |-> "OutOfDate", image |-> 0,
                              swapchain |-> swapchain ] >>
          /\ recreate_swapchain' = TRUE
          /\ frame_future' = current_future
          /\ render_result' = "Ok"
          /\ pc' = "return"
       \/ /\ acquired' = << [ result |-> "Error", image |-> 0,
                              swapchain |-> swapchain ] >>
          /\ render_result' = "failed to acquire PS1 swapchain image"
          /\ pc' = "return"
          /\ UNCHANGED << frame_future, recreate_swapchain >>
    /\ UNCHANGED << session, inputs, swapchain, core_frames, audio_queue,
                    frames, prev_acquire, entry, cpu_state, current_future,
                    blit_future, submitted >>
    /\ UNCHANGED off_loop

\* BlitToFront handing only acquire_future to blit_to_front (no join)
BlitToFront_no_join ==
    /\ pc = "blit"
    /\ blit_future' =
         << blit_to_front(acquired[1].image, frames, full_vram_display,
                          AcquireFuture(frames, acquired[1].image)) >>
    /\ Log("blit_to_front")
    /\ pc' = "submit"
    /\ UNCHANGED << session, inputs, swapchain, frame_future,
                    recreate_swapchain, core_frames, audio_queue, frames,
                    prev_acquire, entry, cpu_state, current_future, acquired,
                    submitted, render_result >>
    /\ UNCHANGED off_loop

\* self.psx.blit_to_front(image, full_vram_display,
\*                        current_future.join(acquire_future).boxed())
BlitToFront ==
    /\ pc = "blit"
    /\ blit_future' =
         << blit_to_front(acquired[1].image, frames, full_vram_display,
                          Join(current_future[1],
                               AcquireFuture(frames, acquired[1].image))) >>
    /\ Log("blit_to_front")
    /\ pc' = "submit"
    /\ UNCHANGED << session, inputs, swapchain, frame_future,
                    recreate_swapchain, core_frames, audio_queue, frames,
                    prev_acquire, entry, cpu_state, current_future, acquired,
                    submitted, render_result >>
    /\ UNCHANGED off_loop

\* SubmitPresent without the OutOfDate arm: every Err is returned
SubmitPresent_out_of_date_is_error ==
    /\ pc = "submit"
    /\ Log("present")
    /\ \/ /\ submitted' = "Ok"
          /\ frame_future' =
               << ThenSwapchainPresent(blit_future[1], frames, acquired[1].image) >>
          /\ render_result' = "Ok"
          /\ UNCHANGED recreate_swapchain
       \/ /\ submitted' \in { "OutOfDate", "Error" }
          /\ render_result' = "failed to submit PS1 frame"
          /\ UNCHANGED << frame_future, recreate_swapchain >>
    /\ pc' = "return"
    /\ UNCHANGED << session, inputs, swapchain, core_frames, audio_queue,
                    frames, prev_acquire, entry, cpu_state, current_future,
                    acquired, blit_future >>
    /\ UNCHANGED off_loop

\* SubmitPresent submitting again when the present reports out-of-date
SubmitPresent_retries_out_of_date ==
    /\ pc = "submit"
    /\ Log("present")
    /\ \/ /\ submitted' = "Ok"
          /\ frame_future' =
               << ThenSwapchainPresent(blit_future[1], frames, acquired[1].image) >>
          /\ render_result' = "Ok"
          /\ pc' = "return"
          /\ UNCHANGED recreate_swapchain
       \/ /\ submitted' = "OutOfDate"
          /\ recreate_swapchain' = TRUE
          /\ pc' = IF submitted = "OutOfDate" THEN "return" ELSE "submit"
          /\ UNCHANGED << frame_future, render_result >>
       \/ /\ submitted' = "Error"
          /\ render_result' = "failed to submit PS1 frame"
          /\ pc' = "return"
          /\ UNCHANGED << frame_future, recreate_swapchain >>
    /\ UNCHANGED << session, inputs, swapchain, core_frames, audio_queue,
                    frames, prev_acquire, entry, cpu_state, current_future,
                    acquired, blit_future >>
    /\ UNCHANGED off_loop

\* future.then_swapchain_present(..).then_signal_fence_and_flush() and the
\* match that refills self.frame_future
SubmitPresent ==
    /\ pc = "submit"
    /\ Log("present")
    /\ \/ /\ submitted' = "Ok"
          /\ frame_future' =
               << ThenSwapchainPresent(blit_future[1], frames, acquired[1].image) >>
          /\ render_result' = "Ok"
          /\ UNCHANGED recreate_swapchain
       \/ /\ submitted' = "OutOfDate"
          /\ recreate_swapchain' = TRUE
          /\ frame_future' = << Now >>
          /\ render_result' = "Ok"
       \/ /\ submitted' = "Error"
          /\ render_result' = "failed to submit PS1 frame"
          /\ UNCHANGED << frame_future, recreate_swapchain >>
    /\ pc' = "return"
    /\ UNCHANGED << session, inputs, swapchain, core_frames, audio_queue,
                    frames, prev_acquire, entry, cpu_state, current_future,
                    acquired, blit_future >>
    /\ UNCHANGED off_loop

\* HandleRedrawReturn without event_loop.exit()
HandleRedrawReturn_no_exit ==
    /\ pc = "return"
    /\ IF render_result # "Ok"
       THEN shutdown_error' = render_result
       ELSE UNCHANGED shutdown_error
    /\ pc' = "idle"
    /\ prev_acquire' = IF acquired = << >> THEN "None" ELSE acquired[1].result
    /\ iter' = << >>
    /\ entry' = << >>
    /\ cpu_state' = "None"
    /\ current_future' = << >>
    /\ acquired' = << >>
    /\ blit_future' = << >>
    /\ submitted' = "None"
    /\ render_result' = "None"
    /\ UNCHANGED << render_context, exiting, run_result, full_vram_display,
                    inputs, swapchain, frame_future, recreate_swapchain,
                    core_frames, audio_queue, frames >>
    /\ UNCHANGED off_loop

\* back in handle_redraw_requested: an Err is stored and the loop exits;
\* the locals of render_cycle and render_frame are gone
HandleRedrawReturn ==
    /\ pc = "return"
    /\ IF render_result # "Ok"
       THEN /\ shutdown_error' = render_result
            /\ exiting' = TRUE
       ELSE UNCHANGED << shutdown_error, exiting >>
    /\ pc' = "idle"
    /\ prev_acquire' = IF acquired = << >> THEN "None" ELSE acquired[1].result
    /\ iter' = << >>
    /\ entry' = << >>
    /\ cpu_state' = "None"
    /\ current_future' = << >>
    /\ acquired' = << >>
    /\ blit_future' = << >>
    /\ submitted' = "None"
    /\ render_result' = "None"
    /\ UNCHANGED << render_context, run_result, full_vram_display, inputs,
                    swapchain, frame_future, recreate_swapchain, core_frames,
                    audio_queue, frames >>
    /\ UNCHANGED off_loop

\* run_app returns once the loop exits; run() returns the stored error
RunReturns ==
    /\ pc = "idle"
    /\ exiting
    /\ run_result' = IF shutdown_error # "None" THEN shutdown_error ELSE "Ok"
    /\ pc' = "done"
    /\ UNCHANGED << render_context, swapchain, frame_future,
                    recreate_swapchain, shutdown_error, exiting,
                    full_vram_display, input_latch, psx_keys, core_frames,
                    audio_queue, locals >>
    /\ UNCHANGED off_loop

Next ==
    \/ Resumed
    \/ CloseRequested
    \/ WindowResized
    \/ KeyboardInput
    \/ FocusLost
    \/ RedrawRequested
    \/ FrameTimerEnforce
    \/ SyncInputs
    \/ ClockFrame
    \/ DrainAudio
    \/ RenderFrameBegin
    \/ RecreateSwapchain
    \/ AcquireNextImage
    \/ BlitToFront
    \/ SubmitPresent
    \/ HandleRedrawReturn
    \/ RunReturns

Spec == Init /\ [][Next]_vars

(* ====================== properties of the iteration =================== *)
\* position of the first call of that name in the iteration (0: not made)
Pos(call) ==
    IF \E i \in 1..Len(iter) : iter[i] = call
    THEN CHOOSE i \in 1..Len(iter) :
             /\ iter[i] = call
             /\ \A j \in 1..(i - 1) : iter[j] # call
    ELSE 0

Called(call) == Pos(call) > 0

\* how many times the iteration has made that call
Calls(call) == Cardinality({ i \in 1..Len(iter) : iter[i] = call })

AcquireResult == IF acquired = << >> THEN "None" ELSE acquired[1].result

\* the iteration is over: render_cycle has returned to handle_redraw_requested
Returned == pc = "return"

\* C1: in an iteration whose acquire_next_image returns OutOfDate the core's
\* clock_full_video_frame is not called
C1_NoCoreFrameOnOutOfDateAcquire ==
    AcquireResult = "OutOfDate" => ~Called("clock_full_video_frame")

\* C2: an iteration that presents a frame acquires the image, then drives
\* the core, then drains audio, then blits, then submits and presents
C2_AcquireDriveDrainBlitPresent ==
    (Returned /\ submitted = "Ok") =>
        /\ Called("acquire_next_image")
        /\ Pos("acquire_next_image") < Pos("clock_full_video_frame")
        /\ Pos("clock_full_video_frame") < Pos("take_audio_buffer")
        /\ Pos("take_audio_buffer") < Pos("blit_to_front")
        /\ Pos("blit_to_front") < Pos("present")

\* the steps of render_frame between taking the future and returning
InRenderFrame == pc \in { "recreate", "acquire", "blit", "submit" }

RecreateFailed == Returned /\ Called("recreate") /\ ~Called("acquire_next_image")

\* the iteration ended on an error of the GPU that is not surface staleness
GpuFatal == Returned /\ (AcquireResult = "Error" \/ submitted = "Error" \/ RecreateFailed)

\* the surface was reported stale by the acquire or by the present
Stale == AcquireResult = "OutOfDate" \/ submitted = "OutOfDate"

C3_AcquireOnlyOnFreshSwapchain ==
    /\ pc = "acquire" => ~recreate_swapchain
    /\ (acquired # << >> /\ entry[1].recreate) =>
          /\ 0 < Pos("recreate")
          /\ Pos("recreate") < Pos("acquire_next_image")
          /\ acquired[1].swapchain # entry[1].swapchain

C3_FlagClearedByRecreation ==
    (recreate_swapchain /\ ~recreate_swapchain') =>
        \/ /\ pc = "recreate"
           /\ iter' = Append(iter, "recreate")
           /\ \/ swapchain' # swapchain
              \/ render_result' = "failed to recreate PlayStation swapchain"
        \/ /\ ~render_context
           /\ render_context'
           /\ swapchain' # swapchain

\* C3: acquire_next_image is never called while recreate_swapchain is set:
\* an iteration entered with the flag set recreates the swapchain (and
\* clears the flag) before its acquire, and the flag goes from true to false
\* only in the step that calls swapchain.recreate (or in init_window)
C3_RecreateBeforeAcquire ==
    []C3_AcquireOnlyOnFreshSwapchain /\ [][C3_FlagClearedByRecreation]_vars

\* an iteration entered with a stale swapchain has acquired on a new one
C3_Witness ==
    /\ pc = "blit"
    /\ prev_acquire = "OutOfDate"
    /\ entry[1].recreate
    /\ acquired[1].swapchain = entry[1].swapchain + 1

\* C4: after a suboptimal acquire the same iteration still blits and
\* presents, recreate_swapchain is set and stays set, and the next
\* iteration recreates the swapchain before its acquire
C4_SuboptimalPresentsThenRecreates ==
    /\ AcquireResult = "Suboptimal" =>
          /\ recreate_swapchain
          /\ pc \in { "blit", "submit", "return" }
    /\ (Returned /\ AcquireResult = "Suboptimal") =>
          /\ Pos("acquire_next_image") < Pos("blit_to_front")
          /\ Pos("blit_to_front") < Pos("present")
          /\ Calls("blit_to_front") = 1
          /\ Calls("present") = 1
          /\ blit_future[1][Len(blit_future[1])] =
                 GpuOp("execute", frames, acquired[1].image)
    /\ (prev_acquire = "Suboptimal" /\ entry = << >>) => recreate_swapchain
    /\ (prev_acquire = "Suboptimal" /\ acquired # << >>) =>
          /\ entry[1].recreate
          /\ 0 < Pos("recreate")
          /\ Pos("recreate") < Pos("acquire_next_image")
          /\ acquired[1].swapchain # entry[1].swapchain

\* the iteration after a suboptimal acquire has recreated and acquired again
C4_Witness ==
    /\ prev_acquire = "Suboptimal"
    /\ pc = "blit"
    /\ acquired[1].swapchain = 2

C5_ResizeStep ==
    /\ WindowResized =>
          /\ recreate_swapchain'
          /\ UNCHANGED << pc, render_context, swapchain, frame_future,
                          shutdown_error, exiting, run_result,
                          full_vram_display, input_latch, psx_keys,
                          core_frames, audio_queue, locals >>
    /\ (render_context /\ swapchain' # swapchain) =>
          /\ pc = "recreate"
          /\ Called("render_frame")

\* C5: a Resized or ScaleFactorChanged event only sets recreate_swapchain;
\* swapchain, frame future, input latch and core are left as they were, and
\* an existing swapchain is replaced only inside render_frame
C5_ResizeOnlyMarks == [][C5_ResizeStep]_vars

\* a resize has been handled before any redraw: flag set, first swapchain kept
C5_Witness ==
    /\ render_context
    /\ pc = "idle"
    /\ frames = 0
    /\ recreate_swapchain
    /\ swapchain = 1
    /\ frame_future = << Now >>

C6_FatalState ==
    /\ GpuFatal => render_result \notin { "Ok", "None" }
    /\ shutdown_error # "None" =>
          /\ exiting
          /\ pc \in { "idle", "done" }
    /\ pc = "done" =>
          run_result = IF shutdown_error # "None" THEN shutdown_error ELSE "Ok"
    /\ pc # "done" => run_result = "running"

C6_FatalStep ==
    /\ GpuFatal =>
          /\ shutdown_error' = render_result
          /\ exiting'
    /\ shutdown_error # "None" =>
          /\ shutdown_error' = shutdown_error
          /\ core_frames' = core_frames
          /\ frames' = frames
          /\ frame_future' = frame_future
          /\ iter' = iter
          /\ pc' \in { "idle", "done" }

\* C6: an acquire error other than OutOfDate, a submit/present error other
\* than OutOfDate and a failed recreation make render_frame return Err; the
\* error is stored in shutdown_error and the loop exits, after which the core
\* is not driven and nothing is submitted, and run() returns that error
C6_FatalErrorsEndTheSession == []C6_FatalState /\ [][C6_FatalStep]_vars

\* run() has returned a submit error although more redraws were possible
C6_Witness ==
    /\ pc = "done"
    /\ run_result = "failed to submit PS1 frame"
    /\ frames < MaxFrames

C7_StaleState ==
    Stale =>
        /\ Returned
        /\ render_result = "Ok"
        /\ recreate_swapchain
        /\ shutdown_error = "None"
        /\ ~exiting

C7_StaleStep ==
    Stale =>
        /\ shutdown_error' = "None"
        /\ Dispatching'
        /\ recreate_swapchain'

\* C7: an OutOfDate from acquire_next_image or from present/flush is not an
\* error: render_frame returns Ok, shutdown_error stays unset, the loop keeps
\* dispatching and recreate_swapchain is set
C7_StalenessIsNotAnError == []C7_StaleState /\ [][C7_StaleStep]_vars

\* an out-of-date acquire in one iteration, an out-of-date present in the next
C7_Witness ==
    /\ Returned
    /\ prev_acquire = "OutOfDate"
    /\ submitted = "OutOfDate"

\* C8: the frame future is one slot that is full between iterations:
\* init_window puts a placeholder in it, render_frame takes the future out
\* and, returning Ok, leaves exactly one in it: the newly submitted future,
\* the previous future after an out-of-date acquire, or a fresh placeholder
\* after an out-of-date present
C8_OneFutureInTheSlot ==
    /\ (render_context /\ frames = 0) => frame_future = << Now >>
    /\ (render_context /\ shutdown_error = "None" /\ ~InRenderFrame /\ ~Returned) =>
          Len(frame_future) = 1
    /\ InRenderFrame =>
          /\ frame_future = << >>
          /\ Len(current_future) = 1
    /\ (Returned /\ render_result = "Ok") =>
          /\ Len(frame_future) = 1
          /\ CASE submitted = "Ok" ->
                    /\ frame_future[1] =
                         Append(blit_future[1],
                                GpuOp("present", frames, acquired[1].image))
                    /\ frame_future # current_future
               [] submitted = "OutOfDate" -> frame_future = << Now >>
               [] AcquireResult = "OutOfDate" -> frame_future = current_future
               [] OTHER -> FALSE

\* the submitted future of the first frame was put back by an iteration
\* whose acquire was out of date
C8_Witness ==
    /\ Returned
    /\ AcquireResult = "OutOfDate"
    /\ Len(frame_future) = 1
    /\ Len(frame_future[1]) = 3

\* the operations iteration n chains for destination image i
FrameOps(n, i) ==
    << GpuOp("acquire", n, i), GpuOp("execute", n, i), GpuOp("present", n, i) >>

OpRank(op) == CASE op = "acquire" -> 1 [] op = "execute" -> 2 [] op = "present" -> 3

\* earlier frames come first in the chain, and within a frame the acquire,
\* then the command buffer, then the present
ChainOrdered(f) ==
    \A a, b \in 1..Len(f) :
        a < b => \/ f[a].frame < f[b].frame
                 \/ /\ f[a].frame = f[b].frame
                    /\ OpRank(f[a].op) < OpRank(f[b].op)

C9_ChainState ==
    /\ pc = "submit" =>
          blit_future[1] =
              current_future[1]
                  \o << GpuOp("acquire", frames, acquired[1].image),
                        GpuOp("execute", frames, acquired[1].image) >>
    /\ (Returned /\ submitted = "Ok") =>
          frame_future[1] =
              current_future[1] \o FrameOps(frames, acquired[1].image)
    /\ \A i \in 1..Len(frame_future) : ChainOrdered(frame_future[i])
    /\ \A i \in 1..Len(blit_future) : ChainOrdered(blit_future[i])

C9_TakeStep ==
    (pc = "render_frame" /\ pc' # pc) => current_future' = frame_future

\* C9: the future left by frame N is threaded into frame N+1: the command
\* buffer of frame N+1 is chained after the join of that future and the
\* acquire future of frame N+1, so in every chain the operations of an
\* earlier frame are ordered before those of a later one
C9_FutureThreadedIntoNextFrame == []C9_ChainState /\ [][C9_TakeStep]_vars

\* two presented frames: the second chain holds the first frame's operations
C9_Witness ==
    /\ Returned
    /\ submitted = "Ok"
    /\ frames = 2
    /\ Len(frame_future[1]) = 6
    /\ frame_future[1][3] = GpuOp("present", 1, acquired[1].image)

C10_AnomalyState ==
    cpu_state = "Anomalous" =>
        /\ Pos("warn") = Pos("clock_full_video_frame") + 1
        /\ shutdown_error = "None"
        /\ pc \in { "audio", "render_frame", "recreate", "acquire", "blit",
                    "submit", "return" }
        /\ pc # "audio" => Pos("warn") < Pos("take_audio_buffer")
        /\ pc \notin { "audio", "render_frame" } =>
               Pos("take_audio_buffer") < Pos("render_frame")
        /\ (Returned /\ render_result # "Ok") => GpuFatal

C10_AnomalyStep ==
    (cpu_state = "Anomalous" /\ shutdown_error' # "None") => GpuFatal

\* C10: a CPU state other than Normal does not abort the iteration: a
\* warning is logged, audio is still drained, render_frame is still entered
\* and shutdown_error is set only by a fatal GPU error
C10_AnomalousStateIsOnlyLogged == []C10_AnomalyState /\ [][C10_AnomalyStep]_vars

\* an iteration with an anomalous CPU state that pushed audio and presented
C10_Witness ==
    /\ Returned
    /\ cpu_state = "Anomalous"
    /\ Called("push_samples")
    /\ submitted = "Ok"

\* C24: no GPU submission is retried: an iteration makes at most one
\* acquire_next_image, one blit and one present; once the present has
\* failed or reported out-of-date, or the acquire has, the iteration is
\* over; an acquire after a stale surface is made by a later iteration
C24_NoSubmissionRetried ==
    /\ Calls("acquire_next_image") <= 1
    /\ Calls("blit_to_front") <= 1
    /\ Calls("present") <= 1
    /\ submitted # "None" => Returned
    /\ AcquireResult \in { "OutOfDate", "Error" } =>
          (Returned /\ ~Called("blit_to_front") /\ ~Called("present"))

\* an iteration that acquired again after a stale one has had its one
\* submission fail and has returned
C24_Witness ==
    /\ Returned
    /\ prev_acquire = "OutOfDate"
    /\ Calls("acquire_next_image") = 1
    /\ Calls("present") = 1
    /\ submitted = "Error"

(* ====================== the input latch on its own ==================== *)
\* everything but the latch, the core's buttons and the latch's last operation
outside_latch == << pc, render_context, swapchain, frame_future, recreate_swapchain,
                   shutdown_error, exiting, run_result, full_vram_display,
                   core_frames, audio_queue, locals, kernel_vars, bridge_vars,
                   aside_vars >>

InputSources == 0..(INPUT_SOURCE_COUNT - 1)

LatchInit ==
    /\ Ps1App_new(LatchKeys)
    /\ latch_op = << >>
    /\ KernelIdle(0)
    /\ FrontBlit_new(VramSample(0, 0, 0))
    /\ AsideInit

\* a call of InputLatch::set (handle_keyboard_input for the keyboard source,
\* ControllerManager::sync_inputs for the controller source)
LatchSet ==
    /\ \E source \in InputSources, key \in LatchKeys, pressed \in BOOLEAN :
         LET st == InputLatch_set(LatchState, source, key, pressed)
         IN  /\ input_latch' = st.latch
             /\ psx_keys' = st.core
             /\ latch_op' = << [ op |-> "set", source |-> source, key |-> key,
                                 pressed |-> pressed, before |-> input_latch,
                                 core_before |-> psx_keys, calls |-> st.calls ] >>
    /\ UNCHANGED outside_latch

\* a call of InputLatch::clear_source; WindowEvent::Focused(false) makes it
\* for the keyboard source
LatchClearSource ==
    /\ \E source \in InputSources :
         LET st == InputLatch_clear_source(LatchState, source)
         IN  /\ input_latch' = st.latch
             /\ psx_keys' = st.core
             /\ latch_op' = << [ op |-> "clear_source", source |-> source,
                                 key |-> "None", pressed |-> FALSE,
                                 before |-> input_latch, core_before |-> psx_keys,
                                 calls |-> st.calls ] >>
    /\ UNCHANGED outside_latch

LatchNext ==
    \/ LatchSet
    \/ LatchClearSource

LatchSpec == LatchInit /\ [][LatchNext]_vars

\* the calls of change_controller_key_state the last operation made for k
CallsFor(o, k) == { i \in 1..Len(o.calls) : o.calls[i][1] = k }

\* the last operation told the core that k was released
ToldReleased(o, k) == \E i \in CallsFor(o, k) : o.calls[i][2] = FALSE

\* the last operation was the clear_source(Keyboard) of a focus loss
FocusLostOp(o) == o.op = "clear_source" /\ o.source = Keyboard

\* C11: after any sequence of InputLatch::set and InputLatch::clear_source
\* calls, the combined state of every button is the OR of what the keyboard
\* source and the controller source hold for it
C11_CombinedIsOrOfSources ==
    \A k \in DOMAIN input_latch.combined :
        input_latch.combined[k] =
            (input_latch.sources[Keyboard][k] \/ input_latch.sources[Controller][k])

\* one source has just released a button that the other source still holds
C11_Witness ==
    /\ latch_op # << >>
    /\ latch_op[1].op = "set"
    /\ ~latch_op[1].pressed
    /\ latch_op[1].before.sources[latch_op[1].source][latch_op[1].key]
    /\ \E s \in InputSources :
         s # latch_op[1].source /\ input_latch.sources[s][latch_op[1].key]
    /\ input_latch.combined[latch_op[1].key]

\* C12: change_controller_key_state(k, v) is called only when the combined
\* state of button k changes, once, with v the new combined state; v always
\* differs from what the core was told last for k (released at first), so
\* the core sees pressed and released alternate, pressed first; and a press
\* by one source of a button another source already holds makes no call
C12_CoreToldOnlyOfChanges ==
    latch_op # << >> =>
      LET o == latch_op[1]
      IN  /\ \A k \in DOMAIN psx_keys :
                /\ Cardinality(CallsFor(o, k)) =
                      IF o.before.combined[k] # input_latch.combined[k] THEN 1 ELSE 0
                /\ \A i \in CallsFor(o, k) :
                      /\ o.calls[i][2] = input_latch.combined[k]
                      /\ o.calls[i][2] # o.core_before[k]
          /\ \A i \in 1..Len(o.calls) : o.calls[i][1] \in DOMAIN psx_keys
          /\ ( /\ o.op = "set"
               /\ o.pressed
               /\ \E s \in InputSources : s # o.source /\ o.before.sources[s][o.key] )
             => o.calls = << >>

\* a second source has just pressed a button that was already held,
\* while the core holds another button pressed
C12_Witness ==
    /\ latch_op # << >>
    /\ latch_op[1].op = "set"
    /\ latch_op[1].pressed
    /\ \E s \in InputSources :
         s # latch_op[1].source /\ latch_op[1].before.sources[s][latch_op[1].key]
    /\ latch_op[1].calls = << >>
    /\ \E k \in DOMAIN psx_keys : k # latch_op[1].key /\ psx_keys[k]

\* C13 as stated: on WindowEvent::Focused(false) the keyboard source is
\* cleared and the core is told of a release for every button the keyboard
\* source was holding
C13_ReleaseForEveryKeyboardHeld ==
    (latch_op # << >> /\ FocusLostOp(latch_op[1])) =>
      /\ \A k \in DOMAIN psx_keys : ~input_latch.sources[Keyboard][k]
      /\ \A k \in DOMAIN psx_keys :
            latch_op[1].before.sources[Keyboard][k] => ToldReleased(latch_op[1], k)

\* C13 as the code has it: on WindowEvent::Focused(false) the keyboard
\* source is cleared and the core is told of a release for exactly the
\* buttons that the keyboard source was holding and the controller source
\* was not
C13_ReleaseForKeyboardOnlyHeld ==
    (latch_op # << >> /\ FocusLostOp(latch_op[1])) =>
      /\ \A k \in DOMAIN psx_keys : ~input_latch.sources[Keyboard][k]
      /\ \A k \in DOMAIN psx_keys :
            ToldReleased(latch_op[1], k) <=>
                ( /\ latch_op[1].before.sources[Keyboard][k]
                  /\ ~latch_op[1].before.sources[Controller][k] )

\* focus was lost while the keyboard held two buttons, one of them held by
\* the controller as well
C13_Witness ==
    /\ latch_op # << >>
    /\ FocusLostOp(latch_op[1])
    /\ \E k1, k2 \in DOMAIN psx_keys :
         /\ latch_op[1].before.sources[Keyboard][k1]
         /\ ~latch_op[1].before.sources[Controller][k1]
         /\ ToldReleased(latch_op[1], k1)
         /\ latch_op[1].before.sources[Keyboard][k2]
         /\ latch_op[1].before.sources[Controller][k2]
         /\ ~ToldReleased(latch_op[1], k2)

\* C30: clearing the keyboard source on focus loss sets every keyboard
\* entry to false and leaves the controller's entries as they were; a
\* button the controller still holds stays pressed in the combined state
\* and in the core, with no call for it; a button neither source held
\* causes no call
C30_FocusLossLeavesController ==
    (latch_op # << >> /\ FocusLostOp(latch_op[1])) =>
      \A k \in DOMAIN psx_keys :
         /\ ~input_latch.sources[Keyboard][k]
         /\ input_latch.sources[Controller][k] = latch_op[1].before.sources[Controller][k]
         /\ latch_op[1].before.sources[Controller][k] =>
               /\ input_latch.combined[k]
               /\ psx_keys[k]
               /\ CallsFor(latch_op[1], k) = { }
         /\ ( /\ ~latch_op[1].before.sources[Keyboard][k]
              /\ ~latch_op[1].before.sources[Controller][k] ) =>
               CallsFor(latch_op[1], k) = { }

\* focus was lost while one button was held by the controller alone, one
\* by both sources and one by neither
C30_Witness ==
    /\ latch_op # << >>
    /\ FocusLostOp(latch_op[1])
    /\ \E k1, k2, k3 \in DOMAIN psx_keys :
         /\ ~latch_op[1].before.sources[Keyboard][k1]
         /\ latch_op[1].before.sources[Controller][k1]
         /\ latch_op[1].before.sources[Keyboard][k2]
         /\ latch_op[1].before.sources[Controller][k2]
         /\ psx_keys[k2]
         /\ ~latch_op[1].before.sources[Keyboard][k3]
         /\ ~latch_op[1].before.sources[Controller][k3]
         /\ latch_op[1].calls = << >>

(* ===================== the conversion kernel on its own =============== *)
\* the presentation loop's own state
loop_vars == << pc, render_context, swapchain, frame_future, recreate_swapchain,
               shutdown_error, exiting, run_result, full_vram_display,
               input_latch, psx_keys, core_frames, audio_queue, locals >>

Patterns == 0..(NumPatterns - 1)

\* the input buffer holds one of the patterns; the dispatch has been submitted
KernelInit ==
    /\ Ps1App_new(Keys)
    /\ latch_op = << >>
    /\ \E p \in Patterns : KernelIdle(p)
    /\ FrontBlit_new(VramSample(0, 0, 0))
    /\ AsideInit

\* the device schedules one work group of the dispatch
KernelWorkGroup ==
    /\ cs_work_group = << >>
    /\ \E gx \in 0..(DispatchGroups[1] - 1), gy \in 0..(DispatchGroups[2] - 1),
          gz \in 0..(DispatchGroups[3] - 1) :
         cs_work_group' = << gx, gy, gz >>
    /\ UNCHANGED << cs_input, cs_invocation, cs_reads, cs_writes,
                    loop_vars, latch_op, bridge_vars, aside_vars >>

\* one invocation of the work group runs main(): local id l,
\* gl_GlobalInvocationID = work group * local_size + l
KernelInvocation ==
    /\ cs_work_group # << >>
    /\ cs_invocation = << >>
    /\ \E lx \in 0..(LocalSize[1] - 1), ly \in 0..(LocalSize[2] - 1),
          lz \in 0..(LocalSize[3] - 1) :
         LET x == cs_work_group[1] * LocalSize[1] + lx
             y == cs_work_group[2] * LocalSize[2] + ly
             z == cs_work_group[3] * LocalSize[3] + lz
             run == kernel_main(InData(cs_input), x, y)
         IN  /\ cs_invocation' = << [ group |-> cs_work_group,
                                      local |-> << lx, ly, lz >>,
                                      x |-> x, y |-> y, z |-> z ] >>
             /\ cs_reads' = run.reads
             /\ cs_writes' = run.writes
    /\ UNCHANGED << cs_input, cs_work_group, loop_vars, latch_op, bridge_vars, aside_vars >>

KernelNext ==
    \/ KernelWorkGroup
    \/ KernelInvocation

KernelSpec == KernelInit /\ [][KernelNext]_vars

\* the invocation that has run is for a pixel of the output
InRange(i) == i.x < 682 /\ i.y < 512

\* the (work group, local id) pairs of axis a whose global id is c
InvocationsAt(a, c) ==
    { gl \in (0..(DispatchGroups[a] - 1)) \X (0..(LocalSize[a] - 1)) :
        gl[1] * LocalSize[a] + gl[2] = c }

\* C14: the invocation for an output pixel (x, y), x < 682 and y < 512,
\* reads nothing but the input bytes at offsets y*2048 + 3x, +1, +2 and
\* writes exactly out[y*682 + x] = 0xFF000000 | b2 << 16 | b1 << 8 | b0 of
\* those bytes b0, b1, b2; the alpha byte is 0xFF and the straddle guard
\* skips no such pixel
C14_PixelUnpacked ==
    (cs_invocation # << >> /\ InRange(cs_invocation[1])) =>
      LET x == cs_invocation[1].x
          y == cs_invocation[1].y
          b0 == InByte(cs_input, y * 2048 + 3 * x)
          b1 == InByte(cs_input, y * 2048 + 3 * x + 1)
          b2 == InByte(cs_input, y * 2048 + 3 * x + 2)
      IN  /\ cs_writes = << << y * 682 + x, [ hi |-> 255 * 256 + b2, lo |-> b1 * 256 + b0 ] >> >>
          /\ ByteOf(cs_writes[1][2], 3) = 255

\* the last pixel of the last scanline has been written, from a triple that
\* begins in the last byte of one input word and ends in the next word
C14_Witness ==
    /\ cs_invocation # << >>
    /\ cs_invocation[1].x = 681
    /\ cs_invocation[1].y = 511
    /\ Len(cs_writes) = 1
    /\ cs_reads[1] % 4 = 3

\* C15: an invocation whose coordinate is out of range (x >= 682 or
\* y >= 512) reads no input and writes no output word
C15_PaddingDoesNothing ==
    (cs_invocation # << >> /\ ~InRange(cs_invocation[1])) =>
      (cs_reads = << >> /\ cs_writes = << >>)

\* a padding invocation of the last work-group column has run
C15_Witness ==
    /\ cs_invocation # << >>
    /\ cs_invocation[1].x = 682
    /\ cs_invocation[1].group[1] = 85
    /\ cs_reads = << >>
    /\ cs_writes = << >>

\* C16: every byte offset an invocation (x, y) reads lies in
\* [y*2048, y*2048 + 2046), the complete triples of scanline y, and the
\* word it is read from is below the input buffer's (1024*512)/2 words
C16_ReadsInsideScanline ==
    cs_invocation # << >> =>
      \A n \in 1..Len(cs_reads) :
         /\ cs_invocation[1].y * 2048 <= cs_reads[n]
         /\ cs_reads[n] < cs_invocation[1].y * 2048 + 2046
         /\ cs_reads[n] \div 4 < (1024 * 512) \div 2
         /\ cs_reads[n] \div 4 < InBufferLen

\* the last byte of the last complete triple of the last scanline has been
\* read, from the last word of the input buffer
C16_Witness ==
    /\ cs_invocation # << >>
    /\ cs_invocation[1].y = 511
    /\ Len(cs_reads) = 3
    /\ cs_reads[3] = 511 * 2048 + 2045
    /\ cs_reads[3] \div 4 = InBufferLen - 1

\* C17: the dispatch is ceil(682/8) x ceil(512/8) x 1 = 86 x 64 x 1 work
\* groups of 8 x 8 invocations; every output pixel of [0,682) x [0,512) is
\* the global id of exactly one invocation, and the grid is wider and
\* higher than the pixel range by fewer than 8 invocations
C17_DispatchCoversEveryPixelOnce ==
    /\ DispatchGroups = << 86, 64, 1 >>
    /\ LocalSize = << 8, 8, 1 >>
    /\ DispatchGroups[1] * LocalSize[1] - 682 \in 0..7
    /\ DispatchGroups[2] * LocalSize[2] - 512 \in 0..7
    /\ cs_work_group = << >> =>
         /\ \A px \in 0..681 : Cardinality(InvocationsAt(1, px)) = 1
         /\ \A py \in 0..511 : Cardinality(InvocationsAt(2, py)) = 1
         /\ Cardinality(InvocationsAt(3, 0)) = 1
    /\ cs_invocation # << >> =>
         /\ cs_invocation[1].x < 682 + 8
         /\ cs_invocation[1].y < 512 + 8
         /\ cs_invocation[1].z = 0

\* the invocations of the two corners of the pixel range's last work group
C17_Witness ==
    /\ cs_invocation # << >>
    /\ cs_invocation[1].group = << 85, 63, 0 >>
    /\ cs_invocation[1].local = << 1, 7, 0 >>
    /\ cs_invocation[1].x = 681
    /\ cs_invocation[1].y = 511
    /\ cs_writes # << >>

\* C29: within one dispatch no two invocations write the same output
\* word: invocation (x, y) writes only index y*682 + x, from which x and y
\* can be read back, the index is below the output buffer's 682*512 words,
\* and the buffer the kernel reads is not the buffer it writes
C29_WritesDoNotCollide ==
    /\ texture_24bit_desc_set[0] # texture_24bit_desc_set[1]
    /\ cs_invocation # << >> =>
         /\ Len(cs_writes) <= 1
         /\ \A n \in 1..Len(cs_writes) :
               /\ cs_writes[n][1] = cs_invocation[1].y * 682 + cs_invocation[1].x
               /\ cs_writes[n][1] % 682 = cs_invocation[1].x
               /\ cs_writes[n][1] \div 682 = cs_invocation[1].y
               /\ cs_writes[n][1] < 682 * 512
               /\ cs_writes[n][1] < OutBufferLen

\* the last pixel of a scanline and the first pixel of the next have
\* neighbouring indices: here the first pixel of scanline 1 has been written
C29_Witness ==
    /\ cs_invocation # << >>
    /\ cs_invocation[1].x = 0
    /\ cs_invocation[1].y = 1
    /\ cs_writes # << >>
    /\ cs_writes[1][1] = 682

(* =============== FrontBlit::blit and the queue on their own =========== *)
BlitInit ==
    /\ Ps1App_new(Keys)
    /\ latch_op = << >>
    /\ KernelIdle(0)
    /\ \E vram \in VramContents : FrontBlit_new(vram)
    /\ AsideInit

\* the queue has finished the last command buffer
GpuIdle == gpu_pos = 0

\* the core draws into VRAM between two frames
VramWrite ==
    /\ GpuIdle
    /\ \E vram \in VramContents \ { texture_image } : texture_image' = vram
    /\ UNCHANGED << texture_24bit_in_buffer, texture_24bit_out_buffer,
                    texture_24bit_image, blit_call, command_buffer, gpu_pos,
                    sampled, loop_vars, latch_op, kernel_vars, aside_vars >>

\* FrontBlit::blit records its command buffer and queues it behind in_future
BlitRecords ==
    /\ GpuIdle
    /\ \E is_24bit_color_depth \in BOOLEAN :
         /\ command_buffer' = blit_commands(is_24bit_color_depth)
         /\ blit_call' =
               << [ is_24bit_color_depth |-> is_24bit_color_depth,
                    found |-> IF is_24bit_color_depth THEN << >>
                              ELSE << texture_24bit_in_buffer,
                                      texture_24bit_out_buffer,
                                      texture_24bit_image >> ] >>
    /\ gpu_pos' = 1
    /\ UNCHANGED << texture_image, texture_24bit_in_buffer,
                    texture_24bit_out_buffer, texture_24bit_image, sampled,
                    loop_vars, latch_op, kernel_vars, aside_vars >>

\* the queue executes the next command of the command buffer
GpuExecutes ==
    /\ gpu_pos \in 1..Len(command_buffer)
    /\ LET c == command_buffer[gpu_pos]
       IN  /\ texture_24bit_in_buffer' =
                 IF c.cmd = "copy_image_to_buffer"
                 THEN << copy_image_to_buffer(texture_image) >>
                 ELSE texture_24bit_in_buffer
           /\ texture_24bit_out_buffer' =
                 IF c.cmd = "dispatch"
                 THEN IF texture_24bit_in_buffer = << >> THEN << >>
                      ELSE << dispatch(texture_24bit_in_buffer[1]) >>
                 ELSE texture_24bit_out_buffer
           /\ texture_24bit_image' =
                 IF c.cmd = "copy_buffer_to_image"
                 THEN IF texture_24bit_out_buffer = << >> THEN << >>
                      ELSE << copy_buffer_to_image(texture_24bit_out_buffer[1]) >>
                 ELSE texture_24bit_image
           /\ sampled' =
                 IF c.cmd = "draw"
                 THEN IF c.src = "texture_24bit_image"
                      THEN << [ image |-> c.src, vram |-> texture_image,
                                content |-> texture_24bit_image,
                                colour |-> IF texture_24bit_image = << >> THEN << >>
                                           ELSE << ImageView(texture_24bit_image[1]) >> ] >>
                      ELSE << [ image |-> c.src, vram |-> texture_image,
                                content |-> << texture_image >>,
                                colour |-> << >> ] >>
                 ELSE sampled
    /\ gpu_pos' = IF gpu_pos = Len(command_buffer) THEN 0 ELSE gpu_pos + 1
    /\ UNCHANGED << texture_image, blit_call, command_buffer,
                    loop_vars, latch_op, kernel_vars, aside_vars >>

BlitNext ==
    \/ VramWrite
    \/ BlitRecords
    \/ GpuExecutes

BlitSpec == BlitInit /\ [][BlitNext]_vars

\* where the command named cmd stands in the command buffer (0: nowhere)
CmdPos(cmd) ==
    IF \E n \in 1..Len(command_buffer) : command_buffer[n].cmd = cmd
    THEN CHOOSE n \in 1..Len(command_buffer) :
            /\ command_buffer[n].cmd = cmd
            /\ \A m \in 1..(n - 1) : command_buffer[m].cmd # cmd
    ELSE 0

\* how many times the command named cmd was recorded
CmdCount(cmd) ==
    Cardinality({ n \in 1..Len(command_buffer) : command_buffer[n].cmd = cmd })

\* the last call of blit was made with this colour-depth flag
LastBlit(is_24bit) ==
    blit_call # << >> /\ blit_call[1].is_24bit_color_depth = is_24bit

\* the draw of the last call has been executed
Drawn == blit_call # << >> /\ (gpu_pos = 0 \/ gpu_pos > CmdPos("draw"))

\* C18, its state: a call with is_24bit false records no image-to-buffer
\* copy, no dispatch and no buffer-to-image copy; its draw samples the
\* core's VRAM image itself; and the staging image and both staging buffers
\* stay as the call found them
C18_SixteenBitState ==
    LastBlit(FALSE) =>
      /\ CmdCount("copy_image_to_buffer") = 0
      /\ CmdCount("dispatch") = 0
      /\ CmdCount("copy_buffer_to_image") = 0
      /\ CmdCount("draw") = 1
      /\ command_buffer[CmdPos("draw")].src = "texture_image"
      /\ blit_call[1].found = << texture_24bit_in_buffer, texture_24bit_out_buffer,
                                 texture_24bit_image >>
      /\ Drawn => /\ sampled[1].image = "texture_image"
                  /\ sampled[1].content = << sampled[1].vram >>

\* C18, its steps: when a 16-bit call's draw follows a 16-bit call's draw
\* and VRAM holds what it held then, the two draws sample the same content
C18_SixteenBitStep ==
    ( /\ LastBlit(FALSE)
      /\ gpu_pos = CmdPos("draw")
      /\ gpu_pos' # gpu_pos
      /\ sampled # << >>
      /\ sampled[1].image = "texture_image"
      /\ sampled[1].vram = texture_image )
    => sampled'[1].content = sampled[1].content

\* C18: with is_24bit false, blit samples the core's VRAM image itself and
\* leaves the bridge alone (no conversion command recorded, staging image
\* and buffers unchanged), so two consecutive calls over an unchanged VRAM
\* image sample identical content
C18_SixteenBitPathIsZeroCopy == []C18_SixteenBitState /\ [][C18_SixteenBitStep]_vars

\* two 16-bit frames in a row over the same VRAM content have been drawn,
\* after a 24-bit frame had filled the staging image
C18_Witness ==
    /\ LastBlit(FALSE)
    /\ GpuIdle
    /\ sampled # << >>
    /\ sampled[1].image = "texture_image"
    /\ sampled[1].vram = texture_image
    /\ texture_24bit_image # << >>
    /\ texture_24bit_in_buffer # << copy_image_to_buffer(texture_image) >>

\* C19: a call with is_24bit true records, in one command buffer and in
\* this order, the copy of the VRAM image into the packed input buffer,
\* the dispatch of the conversion kernel, the copy of the output buffer
\* into the staging image, and then the render pass whose draw samples the
\* staging image; the queue executes them in that order
C19_ConvertBeforeDraw ==
    LastBlit(TRUE) =>
      /\ CmdCount("copy_image_to_buffer") = 1
      /\ CmdCount("dispatch") = 1
      /\ CmdCount("copy_buffer_to_image") = 1
      /\ CmdCount("begin_render_pass") = 1
      /\ CmdCount("draw") = 1
      /\ CmdPos("copy_image_to_buffer") < CmdPos("dispatch")
      /\ CmdPos("dispatch") < CmdPos("copy_buffer_to_image")
      /\ CmdPos("copy_buffer_to_image") < CmdPos("begin_render_pass")
      /\ CmdPos("begin_render_pass") < CmdPos("draw")
      /\ command_buffer[CmdPos("copy_image_to_buffer")].src = "texture_image"
      /\ command_buffer[CmdPos("dispatch")].src
            = command_buffer[CmdPos("copy_image_to_buffer")].dst
      /\ command_buffer[CmdPos("copy_buffer_to_image")].src
            = command_buffer[CmdPos("dispatch")].dst
      /\ command_buffer[CmdPos("draw")].src
            = command_buffer[CmdPos("copy_buffer_to_image")].dst
      /\ command_buffer[CmdPos("draw")].src = "texture_24bit_image"
      /\ Drawn =>
            /\ sampled[1].image = "texture_24bit_image"
            /\ texture_24bit_in_buffer = << copy_image_to_buffer(sampled[1].vram) >>
            /\ texture_24bit_out_buffer = << dispatch(texture_24bit_in_buffer[1]) >>
            /\ sampled[1].content = << copy_buffer_to_image(texture_24bit_out_buffer[1]) >>

\* a 24-bit frame has been drawn after VRAM changed since the frame before
C19_Witness ==
    /\ LastBlit(TRUE)
    /\ GpuIdle
    /\ sampled # << >>
    /\ sampled[1].image = "texture_24bit_image"
    /\ sampled[1].vram = texture_image
    /\ texture_image # VramSample(ByteSamples[1], ByteSamples[1], ByteSamples[1])

\* C20: a pixel whose VRAM bytes are (R, G, B), packed by the kernel,
\* stored in the B8G8R8A8 staging image and sampled through the view that
\* swaps R and B, comes out as the colour (R, G, B) with alpha 0xFF
C20_PixelRoundTrip ==
    (sampled # << >> /\ sampled[1].image = "texture_24bit_image") =>
      sampled[1].colour =
        << [ r |-> sampled[1].vram[1] % 256,
             g |-> sampled[1].vram[1] \div 256,
             b |-> sampled[1].vram[2] % 256,
             a |-> 255 ] >>

\* a pixel with different red and blue bytes has been drawn in 24-bit mode
C20_Witness ==
    /\ sampled # << >>
    /\ sampled[1].image = "texture_24bit_image"
    /\ sampled[1].colour # << >>
    /\ sampled[1].colour[1].r = ByteSamples[1]
    /\ sampled[1].colour[1].b = ByteSamples[2]
    /\ sampled[1].vram[1] % 256 = ByteSamples[1]

\* the command at position n lies inside the render pass
InPass(n) == CmdPos("begin_render_pass") < n /\ n < CmdPos("end_render_pass")

\* a command named cmd is recorded inside the render pass, ahead of the draw
BoundBeforeDraw(cmd) ==
    \E n \in 1..Len(command_buffer) :
       /\ command_buffer[n].cmd = cmd
       /\ InPass(n)
       /\ n < CmdPos("draw")

\* C25: in every blit call the draw of 4 vertices, 1 instance, is recorded
\* strictly between begin_render_pass and end_render_pass, and ahead of it,
\* in that render pass, the viewport (the destination's full extent), the
\* graphics pipeline, the descriptor set with sampler and image view, the
\* push constants (topleft, size, extent) and the vertex buffer are bound
C25_DrawInsideRenderPass ==
    blit_call # << >> =>
      /\ CmdCount("begin_render_pass") = 1
      /\ CmdCount("end_render_pass") = 1
      /\ CmdCount("draw") = 1
      /\ InPass(CmdPos("draw"))
      /\ command_buffer[CmdPos("draw")].args = << 4, 1, 0, 0 >>
      /\ BoundBeforeDraw("set_viewport")
      /\ command_buffer[CmdPos("set_viewport")].src = "dest_image.extent"
      /\ command_buffer[CmdPos("set_viewport")].args = << 0, 0 >>
      /\ BoundBeforeDraw("bind_pipeline_graphics")
      /\ \E n \in 1..Len(command_buffer) :
            /\ command_buffer[n].cmd = "bind_descriptor_sets"
            /\ command_buffer[n].src = command_buffer[CmdPos("draw")].src
            /\ command_buffer[n].args = << "sampler", "image_view" >>
            /\ InPass(n)
            /\ n < CmdPos("draw")
      /\ BoundBeforeDraw("push_constants")
      /\ command_buffer[CmdPos("push_constants")].args = << "topleft", "size", "extent" >>
      /\ BoundBeforeDraw("bind_vertex_buffers")

\* the queue stands at the draw of a 24-bit frame, inside the render pass,
\* the conversion commands of the same command buffer behind it
C25_Witness ==
    /\ LastBlit(TRUE)
    /\ gpu_pos = CmdPos("draw")
    /\ InPass(gpu_pos)
    /\ CmdPos("copy_buffer_to_image") < CmdPos("begin_render_pass")

(* ===================== the controller manager on its own ============== *)
\* controller.rs: STICK_DEADZONE
STICK_DEADZONE == 9000

\* the SDL buttons of the events followed; Misc1 is one map_button drops
SdlButtons == { "DPadLeft", "Start", "Guide", "Misc1" }

\* the SDL axes of the events followed
SdlAxes == { "LeftX", "LeftY", "RightX" }

\* the axis values of the events followed: at rest and at the dead zone's
\* edge on either side
AxisValues == { 0 - STICK_DEADZONE, 0, STICK_DEADZONE }

\* map_button: the VirtualButton of an SDL button, "None" for the others
map_button(button) ==
    CASE button = "A" -> "A"
      [] button = "B" -> "B"
      [] button = "X" -> "X"
      [] button = "Y" -> "Y"
      [] button = "Back" -> "Select"
      [] button = "Start" -> "Start"
      [] button = "Guide" -> "Start"
      [] button = "LeftShoulder" -> "L"
      [] button = "RightShoulder" -> "R"
      [] button = "DPadUp" -> "Up"
      [] button = "DPadDown" -> "Down"
      [] button = "DPadLeft" -> "Left"
      [] button = "DPadRight" -> "Right"
      [] OTHER -> "None"

\* axis_to_buttons: the directions of a left-stick position
axis_to_buttons(x, y) ==
    ( IF x <= 0 - STICK_DEADZONE THEN { "Left" }
      ELSE IF x >= STICK_DEADZONE THEN { "Right" } ELSE { } )
    \cup
    ( IF y <= 0 - STICK_DEADZONE THEN { "Up" }
      ELSE IF y >= STICK_DEADZONE THEN { "Down" } ELSE { } )

\* the manager's state as the functions below take and return it
Manager == [ controllers |-> controllers, pressed_counts |-> pressed_counts ]

\* ControllerManager::is_pressed
is_pressed(counts, button) == counts[button] > 0

\* ControllerManager::open_controller: a device with nothing held
open_controller(m, instance_id) ==
    [ m EXCEPT !.controllers[instance_id] =
        << [ buttons |-> { }, axis_buttons |-> { },
             left_x |-> 0, left_y |-> 0, right_x |-> 0 ] >> ]

\* ControllerManager::decrement: one less, the entry removed at the last
decrement(counts, button) ==
    IF counts[button] > 1
    THEN [ counts EXCEPT ![button] = @ - 1 ]
    ELSE [ counts EXCEPT ![button] = 0 ]

\* the buttons of a set, one after the other, decremented
RECURSIVE DecrementAll(_, _)
DecrementAll(counts, buttons) ==
    IF buttons = { } THEN counts
    ELSE LET b == CHOOSE b \in buttons : TRUE
         IN  DecrementAll(decrement(counts, b), buttons \ { b })

\* ControllerManager::remove_controller
remove_controller(m, instance_id) ==
    IF m.controllers[instance_id] = << >> THEN m
    ELSE LET device == m.controllers[instance_id][1]
         IN  [ controllers |-> [ m.controllers EXCEPT ![instance_id] = << >> ],
               pressed_counts |->
                  DecrementAll(m.pressed_counts,
                               device.buttons \cup device.axis_buttons) ]

\* ControllerManager::set_button_state: the count follows the set only when
\* the insert or the remove changed the set
set_button_state(m, instance_id, button, pressed, axis) ==
    IF m.controllers[instance_id] = << >> THEN m
    ELSE LET device == m.controllers[instance_id][1]
             set == IF axis THEN device.axis_buttons ELSE device.buttons
             changed == IF pressed THEN button \notin set ELSE button \in set
             new_set == IF pressed THEN set \cup { button } ELSE set \ { button }
             new_device == IF axis THEN [ device EXCEPT !.axis_buttons = new_set ]
                                   ELSE [ device EXCEPT !.buttons = new_set ]
         IN  [ controllers |-> [ m.controllers EXCEPT ![instance_id] = << new_device >> ],
               pressed_counts |->
                  IF ~changed THEN m.pressed_counts
                  ELSE IF pressed
                       THEN [ m.pressed_counts EXCEPT ![button] = @ + 1 ]
                       ELSE decrement(m.pressed_counts, button) ]

\* set_button_state(instance_id, b, pressed, true) for the buttons of a set
RECURSIVE SetAxisButtons(_, _, _, _)
SetAxisButtons(m, instance_id, buttons, pressed) ==
    IF buttons = { } THEN m
    ELSE LET b == CHOOSE b \in buttons : TRUE
         IN  SetAxisButtons(set_button_state(m, instance_id, b, pressed, TRUE),
                            instance_id, buttons \ { b }, pressed)

\* ControllerManager::handle_axis: the value is stored; for the left stick
\* axis_buttons is replaced by the target first, then set_button_state is
\* called for what left and for what entered
handle_axis(m, instance_id, axis, value) ==
    IF m.controllers[instance_id] = << >> THEN m
    ELSE LET device == m.controllers[instance_id][1]
         IN  IF axis = "RightX"
             THEN [ m EXCEPT !.controllers[instance_id] =
                      << [ device EXCEPT !.right_x = value ] >> ]
             ELSE LET moved == IF axis = "LeftX"
                               THEN [ device EXCEPT !.left_x = value ]
                               ELSE [ device EXCEPT !.left_y = value ]
                      target == axis_to_buttons(moved.left_x, moved.left_y)
                      old_buttons == device.axis_buttons
                      stored == [ m EXCEPT !.controllers[instance_id] =
                                    << [ moved EXCEPT !.axis_buttons = target ] >> ]
                      released == SetAxisButtons(stored, instance_id,
                                                 old_buttons \ target, FALSE)
                  IN  SetAxisButtons(released, instance_id,
                                     target \ old_buttons, TRUE)

\* everything but the controller manager
outside_controllers == << loop_vars, latch_op, kernel_vars, bridge_vars, keys_down,
                         audio_op, timer_vars, vertex_vars >>

ControllerInit == Init

\* the manager's state after an event
Handled(m) ==
    /\ controllers' = m.controllers
    /\ pressed_counts' = m.pressed_counts
    /\ UNCHANGED outside_controllers

\* handle_event(ControllerDeviceAdded): SDL gives a device that connects an
\* instance id no connected device has
ControllerDeviceAdded ==
    \E which \in ControllerIds :
       /\ controllers[which] = << >>
       /\ Handled(open_controller(Manager, which))

\* handle_event(ControllerDeviceRemoved)
ControllerDeviceRemoved ==
    \E which \in ControllerIds :
       /\ controllers[which] # << >>
       /\ Handled(remove_controller(Manager, which))

\* handle_event(ControllerButtonDown)
ControllerButtonDown ==
    \E which \in ControllerIds, button \in SdlButtons :
       IF map_button(button) # "None"
       THEN Handled(set_button_state(Manager, which, map_button(button), TRUE, FALSE))
       ELSE Handled(Manager)

\* handle_event(ControllerButtonUp)
ControllerButtonUp ==
    \E which \in ControllerIds, button \in SdlButtons :
       IF map_button(button) # "None"
       THEN Handled(set_button_state(Manager, which, map_button(button), FALSE, FALSE))
       ELSE Handled(Manager)

\* handle_event(ControllerAxisMotion)
ControllerAxisMotion ==
    \E which \in ControllerIds, axis \in SdlAxes, value \in AxisValues :
       Handled(handle_axis(Manager, which, axis, value))

ControllerNext ==
    \/ ControllerDeviceAdded
    \/ ControllerDeviceRemoved
    \/ ControllerButtonDown
    \/ ControllerButtonUp
    \/ ControllerAxisMotion

ControllerSpec == ControllerInit /\ [][ControllerNext]_vars

\* the connected controllers that hold a button as a digital button
DigitalHolders(cs, b) ==
    { id \in ControllerIds : cs[id] # << >> /\ b \in cs[id][1].buttons }

\* the connected controllers whose left stick is past the dead zone in the
\* button's direction
StickHolders(cs, b) ==
    { id \in ControllerIds :
        cs[id] # << >> /\ b \in axis_to_buttons(cs[id][1].left_x, cs[id][1].left_y) }

\* C26: after any sequence of controller events, is_pressed(b) is true
\* exactly when at least one connected controller holds b, as a digital
\* button or as a left-stick direction past the dead zone
C26_PressedIffSomeControllerHolds ==
    \A b \in VirtualButtons :
       is_pressed(pressed_counts, b) <=>
          (DigitalHolders(controllers, b) \cup StickHolders(controllers, b)) # { }

\* C27: removing a controller releases only its own contribution: a button
\* another connected controller still holds as a digital button stays
\* pressed, and no count drops below the number of those holders
C27_RemovalKeepsOthersButtons ==
    [][ (\E id \in ControllerIds : controllers[id] # << >> /\ controllers'[id] = << >>) =>
          \A b \in VirtualButtons :
             /\ DigitalHolders(controllers', b) # { } => is_pressed(pressed_counts', b)
             /\ pressed_counts'[b] >= Cardinality(DigitalHolders(controllers', b)) ]_vars

(* ========================= the keyboard on its own ==================== *)
\* the keys of the events followed: two for Select, two for Start, the two
\* the handler treats itself and one that is not mapped
HeldKeyCodes == { "Space", "Backspace", "Enter", "NumpadEnter", "Escape", "KeyV", "KeyF" }

\* the buttons those keys are mapped to
KeyboardButtons == { map_keyboard_key(code) : code \in HeldKeyCodes } \ { "None" }

\* everything but the latch, the core's buttons, the held keys and the two
\* fields the key handler writes
outside_keyboard == << pc, render_context, swapchain, frame_future, recreate_swapchain,
                      shutdown_error, run_result, core_frames, audio_queue, locals,
                      kernel_vars, bridge_vars, controller_vars, audio_op,
                      timer_vars, vertex_vars >>

KeyboardInit ==
    /\ Ps1App_new(KeyboardButtons)
    /\ latch_op = << >>
    /\ KernelIdle(0)
    /\ FrontBlit_new(VramSample(0, 0, 0))
    /\ AsideInit

\* Ps1App::handle_keyboard_input for a key event that is not a repeat
handle_keyboard_input(code, pressed) ==
    IF code = "Escape" /\ pressed
    THEN /\ exiting' = TRUE
         /\ latch_op' = << >>
         /\ UNCHANGED << full_vram_display, input_latch, psx_keys >>
    ELSE LET mapped == map_keyboard_key(code)
             st == IF mapped # "None"
                   THEN InputLatch_set(LatchState, Keyboard, mapped, pressed)
                   ELSE LatchState
         IN  /\ full_vram_display' =
                   IF code = "KeyV" /\ pressed THEN ~full_vram_display
                                               ELSE full_vram_display
             /\ input_latch' = st.latch
             /\ psx_keys' = st.core
             /\ latch_op' =
                   IF mapped # "None"
                   THEN << [ op |-> "set", source |-> Keyboard, key |-> mapped,
                             pressed |-> pressed, before |-> input_latch,
                             core_before |-> psx_keys, calls |-> st.calls ] >>
                   ELSE << >>
             /\ UNCHANGED exiting

\* a key that was up goes down
KeyPressed ==
    /\ \E code \in HeldKeyCodes \ keys_down :
         /\ keys_down' = keys_down \cup { code }
         /\ handle_keyboard_input(code, TRUE)
    /\ UNCHANGED outside_keyboard

\* a held key repeats: the handler returns at once
KeyRepeated ==
    /\ keys_down # { }
    /\ latch_op' = << >>
    /\ UNCHANGED << keys_down, exiting, full_vram_display, input_latch, psx_keys >>
    /\ UNCHANGED outside_keyboard

\* a held key goes up
KeyReleased ==
    /\ \E code \in keys_down :
         /\ keys_down' = keys_down \ { code }
         /\ handle_keyboard_input(code, FALSE)
    /\ UNCHANGED outside_keyboard

\* ControllerBridge::sync_inputs writes the controller source of a button
KeyboardControllerSync ==
    /\ \E key \in KeyboardButtons, pressed \in BOOLEAN :
         LET st == InputLatch_set(LatchState, Controller, key, pressed)
         IN  /\ input_latch' = st.latch
             /\ psx_keys' = st.core
             /\ latch_op' = << [ op |-> "set", source |-> Controller, key |-> key,
                                 pressed |-> pressed, before |-> input_latch,
                                 core_before |-> psx_keys, calls |-> st.calls ] >>
    /\ UNCHANGED << keys_down, exiting, full_vram_display >>
    /\ UNCHANGED outside_keyboard

KeyboardNext ==
    \/ KeyPressed
    \/ KeyRepeated
    \/ KeyReleased
    \/ KeyboardControllerSync

KeyboardSpec == KeyboardInit /\ [][KeyboardNext]_vars

\* C28: while a key mapped to a button is physically held, the keyboard
\* source holds that button and the last operation did not tell the core
\* of its release, whatever other key of the same button went up
C28_HeldKeyKeepsButton ==
    \A code \in keys_down :
       map_keyboard_key(code) # "None" =>
          /\ input_latch.sources[Keyboard][map_keyboard_key(code)]
          /\ latch_op # << >> => ~ToldReleased(latch_op[1], map_keyboard_key(code))

(* ======================= the audio player on its own ================== *)
\* lengths (in f32 samples) of the slices pushed: one device callback's
\* worth and exactly MAX_BUFFER_BYTES
PushCounts == { 2048, 88200 }

\* everything but the audio queue and the last push
outside_audio == << pc, render_context, swapchain, frame_future, recreate_swapchain,
                   shutdown_error, exiting, run_result, full_vram_display,
                   input_latch, psx_keys, core_frames, locals, latch_op,
                   kernel_vars, bridge_vars, controller_vars, keys_down,
                   timer_vars, vertex_vars >>

AudioInit == Init

\* render_cycle calls audio.push_samples; it returns within the step
AudioPush ==
    /\ \E n \in PushCounts, ok \in BOOLEAN, drained \in { 0, DeviceCallbackBytes } :
         /\ audio_queue' = push_samples_with(audio_queue, n, ok, drained)
         /\ audio_op' = << [ before |-> audio_queue, n |-> n, ok |-> ok,
                             drained |-> drained ] >>
    /\ UNCHANGED outside_audio

\* the audio device's callback takes its bytes from the queue
AudioDeviceCallback ==
    /\ audio_queue > 0
    /\ audio_queue' = Drained(audio_queue, DeviceCallbackBytes)
    /\ audio_op' = << >>
    /\ UNCHANGED outside_audio

AudioNext ==
    \/ AudioPush
    \/ AudioDeviceCallback

AudioSpec == AudioInit /\ [][AudioNext]_vars

\* the bytes queue.size() reported in the last push
SizeSeen(o) ==
    LET queued == IF o.ok THEN o.before + o.n * 4 ELSE o.before
    IN  IF queued > o.drained THEN queued - o.drained ELSE 0

\* C22: push_samples never waits for the queue to drain: it can be called
\* whatever the queue holds; it enqueues and, when the size then exceeds
\* 352,800 bytes, clears the whole queue, the samples just pushed included;
\* after every push the queue holds at most 352,800 bytes; a failed enqueue
\* changes nothing
C22_PushNeverWaitsAndCapsQueue ==
    /\ ENABLED AudioPush
    /\ audio_queue <= 352800
    /\ audio_op # << >> =>
         /\ SizeSeen(audio_op[1]) > 352800 => audio_queue = 0
         /\ SizeSeen(audio_op[1]) <= 352800 => audio_queue = SizeSeen(audio_op[1])
         /\ (~audio_op[1].ok /\ audio_op[1].drained = 0) =>
               audio_queue = audio_op[1].before

\* a push onto a queue that held exactly the limit has cleared it
C22_Witness ==
    /\ audio_op # << >>
    /\ audio_op[1].ok
    /\ audio_op[1].before = 352800
    /\ audio_op[1].n = 2048
    /\ audio_queue = 0

(* ======================== the frame timer on its own ================== *)
\* ps1.rs: TARGET_FPS = 59.5, in tenths of a frame per second
TARGET_FPS_TENTHS == 595

\* Duration: the microseconds of a second
MICROS_PER_SEC == 1000000

\* Duration::from_millis(1), in microseconds
SLEEP_MARGIN == 1000

\* Duration::from_secs_f64(1.0 / self.target), cut to whole microseconds
frame_duration == (10 * MICROS_PER_SEC) \div TARGET_FPS_TENTHS

\* the amounts the clock is seen to advance by between two steps
ClockSteps == { 806, 1000 }

\* one pass of enforce's loop breaking as soon as no more than the margin
\* remains instead of spinning
enforce_loop_no_spin(elapsed) ==
    IF frame_duration - elapsed <= SLEEP_MARGIN
    THEN [ pc |-> "returned", did |-> "break", wake |-> 0 ]
    ELSE [ pc |-> "sleeping", did |-> "sleep",
           wake |-> elapsed + (frame_duration - elapsed - SLEEP_MARGIN) ]

\* one pass of enforce's loop for the elapsed time it reads: break, sleep
\* until all but the margin has passed, or spin
enforce_loop(elapsed) ==
    IF elapsed >= frame_duration
    THEN [ pc |-> "returned", did |-> "break", wake |-> 0 ]
    ELSE IF frame_duration - elapsed > SLEEP_MARGIN
         THEN [ pc |-> "sleeping", did |-> "sleep",
                wake |-> elapsed + (frame_duration - elapsed - SLEEP_MARGIN) ]
         ELSE [ pc |-> "loop", did |-> "spin", wake |-> 0 ]

\* everything but the frame timer
outside_timer == << loop_vars, latch_op, kernel_vars, bridge_vars, controller_vars,
                   keys_down, audio_op, vertex_vars >>

TimerInit == Init

\* render_cycle calls frame_timer.enforce(limit_fps); without the limit it
\* returns at once
EnforceCall ==
    /\ enforce_pc = "idle"
    /\ \E limit \in BOOLEAN :
         /\ enforce_pc' = IF limit THEN "loop" ELSE "returned"
         /\ enforce_call' = << [ limit |-> limit, checked |-> 0, did |-> "none",
                                 wake |-> 0, slept |-> FALSE, spun |-> FALSE ] >>
    /\ UNCHANGED last_frame_elapsed
    /\ UNCHANGED outside_timer

\* one pass of the loop: last_frame.elapsed() is read and acted on
EnforceLoop ==
    /\ enforce_pc = "loop"
    /\ LET step == enforce_loop(last_frame_elapsed)
       IN  /\ enforce_pc' = step.pc
           /\ enforce_call' =
                << [ enforce_call[1] EXCEPT
                       !.checked = last_frame_elapsed,
                       !.did = step.did,
                       !.wake = step.wake,
                       !.slept = @ \/ step.did = "sleep",
                       !.spun = @ \/ step.did = "spin" ] >>
    /\ UNCHANGED last_frame_elapsed
    /\ UNCHANGED outside_timer

\* thread::sleep returns once the time asked for has passed, or later
SleepReturns ==
    /\ enforce_pc = "sleeping"
    /\ last_frame_elapsed >= enforce_call[1].wake
    /\ enforce_pc' = "loop"
    /\ UNCHANGED << last_frame_elapsed, enforce_call >>
    /\ UNCHANGED outside_timer

\* the rest of render_cycle up to frame_timer.tick(): last_frame is now
FrameTimerTick ==
    /\ enforce_pc = "returned"
    /\ last_frame_elapsed' = 0
    /\ enforce_pc' = "idle"
    /\ enforce_call' = << >>
    /\ UNCHANGED outside_timer

\* the monotonic clock advances
ClockAdvances ==
    /\ last_frame_elapsed < MaxElapsedMicros
    /\ \E d \in ClockSteps : last_frame_elapsed' = last_frame_elapsed + d
    /\ UNCHANGED << enforce_pc, enforce_call >>
    /\ UNCHANGED outside_timer

TimerNext ==
    \/ EnforceCall
    \/ EnforceLoop
    \/ SleepReturns
    \/ FrameTimerTick
    \/ ClockAdvances

\* the clock keeps advancing and the thread in enforce keeps being run
TimerSpec ==
    /\ TimerInit
    /\ [][TimerNext]_vars
    /\ WF_vars(ClockAdvances)
    /\ WF_vars(EnforceLoop)
    /\ WF_vars(SleepReturns)

\* a call of enforce with the limit on has not returned yet
Waiting == enforce_pc \in { "loop", "sleeping" }

\* what holds of every state of a call of enforce
C23_EnforceState ==
    /\ (enforce_pc = "returned" /\ enforce_call[1].limit) =>
          /\ last_frame_elapsed >= 16806
          /\ enforce_call[1].checked >= 16806
          /\ enforce_call[1].did = "break"
    /\ (enforce_pc = "returned" /\ ~enforce_call[1].limit) =>
          /\ enforce_call[1].did = "none"
          /\ ~enforce_call[1].slept
          /\ ~enforce_call[1].spun
    /\ enforce_pc = "sleeping" =>
          /\ 16806 - enforce_call[1].checked > 1000
          /\ enforce_call[1].wake = 16806 - 1000
    /\ (Waiting /\ enforce_call[1].did = "spin") =>
          /\ enforce_call[1].checked < 16806
          /\ 16806 - enforce_call[1].checked <= 1000

\* a call without the limit returns in the step that makes it
C23_EnforceStep ==
    (enforce_pc = "idle" /\ enforce_pc' # "idle" /\ ~enforce_call'[1].limit) =>
       /\ enforce_pc' = "returned"
       /\ last_frame_elapsed' = last_frame_elapsed

\* C23: with the limit on, enforce returns only once the target interval
\* (1/59.5 s) has passed since the last tick, sleeping while more than 1 ms
\* remains and spinning for the rest, and it always returns as the clock
\* advances; with the limit off it returns at once without waiting
C23_EnforceWaitsOutTheFrame ==
    /\ []C23_EnforceState
    /\ [][C23_EnforceStep]_vars
    /\ (Waiting ~> enforce_pc = "returned")

\* a call with the limit on has slept, then spun, then returned
C23_Witness ==
    /\ enforce_pc = "returned"
    /\ enforce_call[1].limit
    /\ enforce_call[1].slept
    /\ enforce_call[1].spun
    /\ enforce_call[1].checked = 16806

(* ======================= the vertex shader on its own ================= *)
\* the greatest common divisor of two naturals
RECURSIVE Gcd(_, _)
Gcd(a, b) == IF b = 0 THEN a ELSE Gcd(b, a % b)

\* the magnitude of an integer
Abs(a) == IF a < 0 THEN 0 - a ELSE a

\* a GLSL float, kept exactly as a fraction in lowest terms
Rat(n, d) ==
    LET g == Gcd(Abs(n), Abs(d))
        sign == IF d < 0 THEN -1 ELSE 1
    IN  << sign * (n \div g), sign * (d \div g) >>

RatAdd(a, b) == Rat(a[1] * b[2] + b[1] * a[2], a[2] * b[2])
RatMul(a, b) == Rat(a[1] * b[1], a[2] * b[2])
RatDiv(a, b) == Rat(a[1] * b[2], a[2] * b[1])

\* vec2(uvec2) and vec2 of the vertex attribute
Vec2(v) == << Rat(v[1], 1), Rat(v[2], 1) >>

\* component-wise vec2 operations, a scalar applied to both components
VecAdd(a, b) == << RatAdd(a[1], b[1]), RatAdd(a[2], b[2]) >>
VecMul(a, b) == << RatMul(a[1], b[1]), RatMul(a[2], b[2]) >>
VecDiv(a, b) == << RatDiv(a[1], b[1]), RatDiv(a[2], b[2]) >>
Splat(n) == << Rat(n, 1), Rat(n, 1) >>

\* main() without the move of the position from [-1, 1] to [0, 1]
vs_main_no_remap(position, push) ==
    LET inv_extent == Vec2(push.extent)
        topleft == VecDiv(Vec2(push.topleft), inv_extent)
        size == VecDiv(Vec2(push.size), inv_extent)
    IN  VecAdd(VecMul(Vec2(position), size), topleft)

\* void main() of the vertex shader: the tex_coords of one vertex
vs_main(position, push) ==
    LET inv_extent == Vec2(push.extent)
        topleft == VecDiv(Vec2(push.topleft), inv_extent)
        size == VecDiv(Vec2(push.size), inv_extent)
        tex_coords == VecDiv(VecAdd(Vec2(position), Splat(1)), Splat(2))
    IN  VecAdd(VecMul(tex_coords, size), topleft)

\* the push constants of the draws followed: the source's extent, the top
\* left corner and the size of the part shown
PushConstants ==
    [ topleft : { << 0, 0 >>, << 64, 32 >> },
      size    : { << 256, 256 >>, << 128, 128 >>, << 320, 240 >> },
      extent  : { << 256, 256 >>, << 1024, 512 >> } ]

\* everything but the vertex shader's invocations
outside_vertex == << loop_vars, latch_op, kernel_vars, bridge_vars, controller_vars,
                    keys_down, audio_op, timer_vars >>

\* a draw of the quad has been submitted with one of the push constants
VertexInit ==
    /\ Ps1App_new(Keys)
    /\ latch_op = << >>
    /\ KernelIdle(0)
    /\ FrontBlit_new(VramSample(0, 0, 0))
    /\ PartsInit
    /\ \E push \in PushConstants : VertexIdle(<< push >>)

\* the device runs the shader for one vertex of the draw
VertexInvocation ==
    /\ \E i \in 1..Len(vertex_buffer) :
         /\ vs_out[i] = << >>
         /\ vs_out' = [ vs_out EXCEPT ![i] = << vs_main(vertex_buffer[i], vs_push[1]) >> ]
    /\ UNCHANGED vs_push
    /\ UNCHANGED outside_vertex

VertexNext == VertexInvocation

VertexSpec == VertexInit /\ [][VertexNext]_vars

\* the fraction a is n / d
RatIs(a, n, d) == a[2] # 0 /\ a[1] * d = n * a[2]

\* the corners' tex_coords, in the vertex buffer's order, are these fractions
CornersAre(c) ==
    \A i \in 1..4 :
       vs_out[i] # << >> =>
          /\ RatIs(vs_out[i][1][1], c[i][1], c[i][2])
          /\ RatIs(vs_out[i][1][2], c[i][3], c[i][4])

\* C21: the vertex shader maps corner p of {-1, 1}^2 to
\* ((p + 1) / 2) * (size / extent) + topleft / extent; with extent
\* (256, 256), topleft (0, 0) and size (256, 256) the corners map to (0, 0),
\* (0, 1), (1, 0), (1, 1), with size (128, 128) to (0, 0), (0, 1/2),
\* (1/2, 0), (1/2, 1/2)
C21_CornersToTexCoords ==
    /\ \A i \in 1..4 :
         vs_out[i] # << >> =>
            \A k \in 1..2 :
               RatIs(vs_out[i][1][k],
                     (vertex_buffer[i][k] + 1) * vs_push[1].size[k]
                        + 2 * vs_push[1].topleft[k],
                     2 * vs_push[1].extent[k])
    /\ ( /\ vs_push[1].extent = << 256, 256 >>
         /\ vs_push[1].topleft = << 0, 0 >>
         /\ vs_push[1].size = << 256, 256 >> ) =>
          CornersAre(<< << 0, 1, 0, 1 >>, << 0, 1, 1, 1 >>,
                        << 1, 1, 0, 1 >>, << 1, 1, 1, 1 >> >>)
    /\ ( /\ vs_push[1].extent = << 256, 256 >>
         /\ vs_push[1].topleft = << 0, 0 >>
         /\ vs_push[1].size = << 128, 128 >> ) =>
          CornersAre(<< << 0, 1, 0, 1 >>, << 0, 1, 1, 2 >>,
                        << 1, 2, 0, 1 >>, << 1, 2, 1, 2 >> >>)

\* the four vertices of a draw of the top-left quadrant have been run: the
\* last corner's tex_coords are (1/2, 1/2)
C21_Witness ==
    /\ vs_push # << >>
    /\ vs_push[1].extent = << 256, 256 >>
    /\ vs_push[1].topleft = << 0, 0 >>
    /\ vs_push[1].size = << 128, 128 >>
    /\ \A i \in 1..4 : vs_out[i] # << >>
    /\ vs_out[4][1] = << << 1, 2 >>, << 1, 2 >> >>

====
